---- MODULE Spec2Model ----
(***************************************************************************)
(* Contribution-heatmap tetromino tiler (scripts/generate-tetris-svg.js):  *)
(* the deterministic RNG, the intensity buckets, the shape catalog, the    *)
(* greedy packer tileToPlacements and the overlay timeline of renderSvg;   *)
(* then the other scripts: main's output file, the row-build and the       *)
(* random-overlay variants, the classic well and the sweep.                *)
(***************************************************************************)
EXTENDS Integers, Sequences, FiniteSets, TLC

VARIABLES W, grid, seed, r, t, mask, placements, safety, cell, best, pc, overlay, returned,
          weeks, dates, heat, sweep,
          svg, file, err, gens, appearTime, drops,
          pieces, board, score, lines, steps, landed, order, dur, cursorPath, pops

vars == <<W, grid, seed, r, t, mask, placements, safety, cell, best, pc, overlay, returned,
          weeks, dates, heat, sweep,
          svg, file, err, gens, appearTime, drops,
          pieces, board, score, lines, steps, landed, order, dur, cursorPath, pops>>

\* the state of the scripts before renderSvg's tiler: the weeks fetched, the
\* dates of buildHeatmap, the heat layer, and the colour grid of the sweep script
heatVars == <<weeks, dates, heat, sweep>>

\* main's rendered document, the output file and the error thrown
mainVars == <<svg, file, err>>

\* the generators made by mulberry32, each with its own closure
rngVars == <<gens>>

\* the row-build variant of renderSvg: tile appearance times and falling blocks
rowVars == <<appearTime, drops>>

\* simulateGame of the classic well
gameVars == <<pieces, board, score, lines, steps, landed>>

\* buildAnimatedSVG of the sweep scripts: the visit order, the duration of the
\* cursor's animation, the cells of its values, and the spark pops
sweepVars == <<order, dur, cursorPath, pops>>

auxVars == <<mainVars, rngVars, rowVars, gameVars, sweepVars>>

(***************************************************************************)
(* Program constants.                                                      *)
(***************************************************************************)
H == 7
MAX_WEEKS == 53
SAFETY_CAP == 4000
N_RUNS == 10
\* stepDur = 0.18 s and runDur = 10 s, in hundredths of a second
STEP_DUR == 18
RUN_DUR == 1000
\* the 0.5 s kept free at the end of a run: (runDur - 0.5) / placements.length
RUN_TAIL == 50
\* fromY of every falling piece
FROM_Y == -6
\* const runSeed = (seed + r * 10007) >>> 0
RUN_PRIME == 10007

(***************************************************************************)
(* Bounds of the model.                                                    *)
(***************************************************************************)
\* widest grid whose occupancy patterns are enumerated exhaustively
MaxW == 4
\* week lists of 0 .. MaxShortWeeks weeks and of 52 .. 53 + MaxExtraWeeks weeks
MaxShortWeeks == 2
MaxExtraWeeks == 2
\* the counts of the days run through CountCycle from offsets 0 .. MaxShift
MaxShift == 5
\* bucketLevel is tabulated on the counts -MaxCount .. MaxCount
MaxCount == 20
\* number of cells of the window that may hold contributions
MaxCells == 8
\* an arbitrary RNG stream returns k / RngRes, k in 0 .. RngRes - 1
RngRes == 4
\* seeds 0 .. MaxSeed and 2^32 - 1 - MaxSeed .. 2^32 - 1
MaxSeed == 1
\* most isolated contributed cells of the 53-week grids
SparseCells == 58
\* longest rendered document of main, in pieces of text
MaxDocLen == 3
\* generators made and calls made on each
MaxGens == 2
MaxCalls == 2
\* most full rows of the boards handed to clearFullRows
MaxFull == 2

(***************************************************************************)
(* 32-bit words as <<high half, low half>> of 16 bits each.                *)
(***************************************************************************)
HALF == 65536

Min(a, b) == IF a <= b THEN a ELSE b

\* bitwise operators on n-bit naturals
RECURSIVE Xor(_, _, _)
Xor(a, b, n) ==
  IF n = 0 THEN 0
  ELSE ((a + b) % 2) + 2 * Xor(a \div 2, b \div 2, n - 1)

RECURSIVE Or(_, _, _)
Or(a, b, n) ==
  IF n = 0 THEN 0
  ELSE (IF a % 2 = 1 \/ b % 2 = 1 THEN 1 ELSE 0) + 2 * Or(a \div 2, b \div 2, n - 1)

RECURSIVE Pow2(_)
Pow2(n) == IF n = 0 THEN 1 ELSE 2 * Pow2(n - 1)

\* a ^ b, a | b (b < 2^16), a + b and a >>> n (0 < n < 16) on 32-bit words
Xor32(a, b) == <<Xor(a[1], b[1], 16), Xor(a[2], b[2], 16)>>
Or32(a, b) == <<a[1], Or(a[2], b, 16)>>
Add32(a, b) ==
  <<(a[1] + b[1] + ((a[2] + b[2]) \div HALF)) % HALF, (a[2] + b[2]) % HALF>>
Shr32(a, n) ==
  <<a[1] \div Pow2(n), (a[2] \div Pow2(n)) + (a[1] % Pow2(n)) * Pow2(16 - n)>>

\* the 32-bit product of two 16-bit numbers, by bytes
Mul16(x, y) ==
  LET p1  == (x % 256) * y
      p2  == (x \div 256) * y
      low == (p2 % 256) * 256 + p1
  IN <<(p2 \div 256) + (low \div HALF), low % HALF>>

\* Math.imul(a, b): the low 32 bits of the product
Imul32(a, b) ==
  LET ll == Mul16(a[2], b[2])
      hl == Mul16(a[1], b[2])[2]
      lh == Mul16(a[2], b[1])[2]
  IN <<(ll[1] + hl + lh) % HALF, ll[2]>>

\* Math.floor(rng() * n) where rng() = u / 2^32
FloorMul(u, n) == (u[1] * n + ((u[2] * n) \div HALF)) \div HALF

(***************************************************************************)
(* mulberry32(seed): the closure's state t, kept modulo 2^32 (the double   *)
(* t is exact and only read through 32-bit operators).                     *)
(***************************************************************************)
\* 0x6d2b79f5
RNG_INC == <<27947, 31221>>

\* mutant: one generator state shared by all closures, never reseeded
mulberry32Shared(sd) == t

\* let t = seed >>> 0
mulberry32(sd) == sd

\* t += 0x6d2b79f5
rngAdvance(st) == Add32(st, RNG_INC)

\* the numerator u of the value u / 4294967296 returned with state st
rngValue(st) ==
  LET r1 == Imul32(Xor32(st, Shr32(st, 15)), Or32(st, 1))
      r2 == Xor32(r1, Add32(r1, Imul32(Xor32(r1, Shr32(r1, 7)), Or32(r1, 61))))
  IN Xor32(r2, Shr32(r2, 14))

\* mutant: every run is seeded with the base seed
runSeedOfBase(sd, run) == sd

\* (seed + r * 10007) >>> 0
runSeed(sd, run) == Add32(sd, <<(run * RUN_PRIME) \div HALF, (run * RUN_PRIME) % HALF>>)

(***************************************************************************)
(* Intensity buckets and colours.                                          *)
(***************************************************************************)
\* mutant: every test is strict (< for <=)
bucketLevelStrict(count) ==
  IF count < 0 THEN 0
  ELSE IF count < 2 THEN 1
  ELSE IF count < 5 THEN 2
  ELSE IF count < 9 THEN 3
  ELSE 4

bucketLevel(count) ==
  IF count <= 0 THEN 0
  ELSE IF count <= 2 THEN 1
  ELSE IF count <= 5 THEN 2
  ELSE IF count <= 9 THEN 3
  ELSE 4

LEVEL_COLOR ==
  [lvl \in 0..4 |->
     CASE lvl = 0 -> "#0b1224"
       [] lvl = 1 -> "#0e4429"
       [] lvl = 2 -> "#006d32"
       [] lvl = 3 -> "#26a641"
       [] lvl = 4 -> "#39d353"]

\* colorFor(count) of the sweep script (generate-minesweeper-pop)
colorFor(count) ==
  IF count <= 0 THEN "#161b22"
  ELSE IF count < 3 THEN "#0e4429"
  ELSE IF count < 7 THEN "#006d32"
  ELSE IF count < 15 THEN "#26a641"
  ELSE "#39d353"

\* the palette of the sweep script from least to most intense, as its light
\* version maps it
SWEEP_COLOR ==
  [lvl \in 0..4 |->
     CASE lvl = 0 -> "#161b22"
       [] lvl = 1 -> "#0e4429"
       [] lvl = 2 -> "#006d32"
       [] lvl = 3 -> "#26a641"
       [] lvl = 4 -> "#39d353"]

(***************************************************************************)
(* Shape catalog: offsets <<dx, dy>>.                                      *)
(***************************************************************************)
\* mutant: the four rotations of a kind are four copies of its first shape
PIECES_Unrotated ==
  [p \in {"I", "O", "T", "S", "Z", "J", "L"} |->
     LET s0 == CASE p = "I" -> << <<0,1>>, <<1,1>>, <<2,1>>, <<3,1>> >>
                 [] p = "O" -> << <<1,0>>, <<2,0>>, <<1,1>>, <<2,1>> >>
                 [] p = "T" -> << <<1,0>>, <<0,1>>, <<1,1>>, <<2,1>> >>
                 [] p = "S" -> << <<1,0>>, <<2,0>>, <<0,1>>, <<1,1>> >>
                 [] p = "Z" -> << <<0,0>>, <<1,0>>, <<1,1>>, <<2,1>> >>
                 [] p = "J" -> << <<0,0>>, <<0,1>>, <<1,1>>, <<2,1>> >>
                 [] p = "L" -> << <<2,0>>, <<0,1>>, <<1,1>>, <<2,1>> >>
     IN <<s0, s0, s0, s0>>]

PIECES ==
  [p \in {"I", "O", "T", "S", "Z", "J", "L"} |->
     CASE p = "I" -> << << <<0,1>>, <<1,1>>, <<2,1>>, <<3,1>> >>,
                        << <<2,0>>, <<2,1>>, <<2,2>>, <<2,3>> >>,
                        << <<0,2>>, <<1,2>>, <<2,2>>, <<3,2>> >>,
                        << <<1,0>>, <<1,1>>, <<1,2>>, <<1,3>> >> >>
       [] p = "O" -> << << <<1,0>>, <<2,0>>, <<1,1>>, <<2,1>> >>,
                        << <<1,0>>, <<2,0>>, <<1,1>>, <<2,1>> >>,
                        << <<1,0>>, <<2,0>>, <<1,1>>, <<2,1>> >>,
                        << <<1,0>>, <<2,0>>, <<1,1>>, <<2,1>> >> >>
       [] p = "T" -> << << <<1,0>>, <<0,1>>, <<1,1>>, <<2,1>> >>,
                        << <<1,0>>, <<1,1>>, <<2,1>>, <<1,2>> >>,
                        << <<0,1>>, <<1,1>>, <<2,1>>, <<1,2>> >>,
                        << <<1,0>>, <<0,1>>, <<1,1>>, <<1,2>> >> >>
       [] p = "S" -> << << <<1,0>>, <<2,0>>, <<0,1>>, <<1,1>> >>,
                        << <<1,0>>, <<1,1>>, <<2,1>>, <<2,2>> >>,
                        << <<1,1>>, <<2,1>>, <<0,2>>, <<1,2>> >>,
                        << <<0,0>>, <<0,1>>, <<1,1>>, <<1,2>> >> >>
       [] p = "Z" -> << << <<0,0>>, <<1,0>>, <<1,1>>, <<2,1>> >>,
                        << <<2,0>>, <<1,1>>, <<2,1>>, <<1,2>> >>,
                        << <<0,1>>, <<1,1>>, <<1,2>>, <<2,2>> >>,
                        << <<1,0>>, <<0,1>>, <<1,1>>, <<0,2>> >> >>
       [] p = "J" -> << << <<0,0>>, <<0,1>>, <<1,1>>, <<2,1>> >>,
                        << <<1,0>>, <<2,0>>, <<1,1>>, <<1,2>> >>,
                        << <<0,1>>, <<1,1>>, <<2,1>>, <<2,2>> >>,
                        << <<1,0>>, <<1,1>>, <<0,2>>, <<1,2>> >> >>
       [] p = "L" -> << << <<2,0>>, <<0,1>>, <<1,1>>, <<2,1>> >>,
                        << <<1,0>>, <<1,1>>, <<1,2>>, <<2,2>> >>,
                        << <<0,1>>, <<1,1>>, <<2,1>>, <<0,2>> >>,
                        << <<0,0>>, <<1,0>>, <<1,1>>, <<1,2>> >> >>]

\* mutant: the last kind is missing from the order of the search
PIECE_ORDER_ShortOfL == <<"I", "O", "T", "S", "Z", "J">>

PIECE_ORDER == <<"I", "O", "T", "S", "Z", "J", "L">>

\* the 1x1 fallback shape [[0, 0]]
UNIT_SHAPE == << <<0,0>> >>

\* JavaScript's null for the local `best` and for `cell`
Null == [piece |-> "null"]

(***************************************************************************)
(* The tiler's helpers (closures of renderSvg over grid, W, H).            *)
(***************************************************************************)
\* mutant: >= for > in the test of the count
makeMaskNonNegative == [y \in 0..(H-1) |-> [x \in 0..(W-1) |-> grid[y][x] >= 0]]

makeMaskFromGrid == [y \in 0..(H-1) |-> [x \in 0..(W-1) |-> grid[y][x] > 0]]

RECURSIVE canPlaceFrom(_, _, _, _, _)
canPlaceFrom(m, shape, ox, oy, k) ==
  IF k > Len(shape) THEN TRUE
  ELSE LET x == ox + shape[k][1]
           y == oy + shape[k][2]
       IN IF x < 0 \/ x >= W \/ y < 0 \/ y >= H THEN FALSE
          ELSE IF ~m[y][x] THEN FALSE
          ELSE canPlaceFrom(m, shape, ox, oy, k + 1)

\* mutant: the test of the mask is forgotten, only the bounds are checked
canPlaceBoundsOnly(m, shape, ox, oy) ==
  \A k \in 1..Len(shape) :
    /\ 0 <= ox + shape[k][1] /\ ox + shape[k][1] < W
    /\ 0 <= oy + shape[k][2] /\ oy + shape[k][2] < H

\* mutant: the anchor itself is required to lie in the grid
canPlaceAnchorInside(m, shape, ox, oy) ==
  /\ 0 <= ox /\ ox < W
  /\ 0 <= oy /\ oy < H
  /\ canPlaceFrom(m, shape, ox, oy, 1)

canPlaceOnMask(m, shape, ox, oy) == canPlaceFrom(m, shape, ox, oy, 1)

\* the cells a shape anchored at (ox, oy) writes, as <<x, y>>
ShapeCells(shape, ox, oy) ==
  {<<ox + shape[k][1], oy + shape[k][2]>> : k \in 1..Len(shape)}

\* mutant: only the anchor is cleared, the offsets are forgotten
applyPlaceAnchorOnly(m, shape, ox, oy) ==
  [y \in 0..(H-1) |-> [x \in 0..(W-1) |->
     IF <<x, y>> = <<ox, oy>> THEN FALSE ELSE m[y][x]]]

applyPlace(m, shape, ox, oy) ==
  [y \in 0..(H-1) |-> [x \in 0..(W-1) |->
     IF <<x, y>> \in ShapeCells(shape, ox, oy) THEN FALSE ELSE m[y][x]]]

RECURSIVE placementScoreFrom(_, _, _, _)
placementScoreFrom(shape, ox, oy, k) ==
  IF k > Len(shape) THEN 0
  ELSE bucketLevel(grid[oy + shape[k][2]][ox + shape[k][1]])
       + placementScoreFrom(shape, ox, oy, k + 1)

\* mutant: the counts are summed, not their levels
RECURSIVE placementCountFrom(_, _, _, _)
placementCountFrom(shape, ox, oy, k) ==
  IF k > Len(shape) THEN 0
  ELSE grid[oy + shape[k][2]][ox + shape[k][1]] + placementCountFrom(shape, ox, oy, k + 1)

placementScoreOfCounts(shape, ox, oy) == placementCountFrom(shape, ox, oy, 1)

placementScore(shape, ox, oy) == placementScoreFrom(shape, ox, oy, 1)

\* xs of chooseNextCell: the x of the mask's row y, ascending
RECURSIVE RowXs(_, _, _)
RowXs(m, y, x) ==
  IF x >= W THEN <<>>
  ELSE (IF m[y][x] THEN <<x>> ELSE <<>>) \o RowXs(m, y, x + 1)

\* chooseNextCell(mask, rng): rows scanned from y = H - 1 upward; u is the
\* value the RNG returns when it is called
RECURSIVE chooseFrom(_, _, _)
chooseFrom(m, u, y) ==
  IF y < 0 THEN Null
  ELSE LET xs == RowXs(m, y, 0)
       IN IF Len(xs) > 0
          THEN [x |-> xs[FloorMul(u, Len(xs)) + 1], y |-> y]
          ELSE chooseFrom(m, u, y - 1)

\* mutant: the rows are scanned from the top row downward
RECURSIVE chooseFromTop(_, _, _)
chooseFromTop(m, u, y) ==
  IF y >= H THEN Null
  ELSE LET xs == RowXs(m, y, 0)
       IN IF Len(xs) > 0
          THEN [x |-> xs[FloorMul(u, Len(xs)) + 1], y |-> y]
          ELSE chooseFromTop(m, u, y + 1)

chooseTopFirst(m, u) == chooseFromTop(m, u, 0)

chooseNextCell(m, u) == chooseFrom(m, u, H - 1)

\* whether chooseNextCell calls rng() on this mask
ChooseCallsRng(m) == \E y \in 0..(H-1), x \in 0..(W-1) : m[y][x]

\* mutant: the selected cell is recorded as the anchor of the candidate
searchStepCellAnchor(m, p, rot, k, cx, cy, b) ==
  LET shape == PIECES[p][rot + 1]
      ox    == cx - shape[k][1]
      oy    == cy - shape[k][2]
  IN IF ~canPlaceOnMask(m, shape, ox, oy) THEN b
     ELSE LET sc == placementScore(shape, ox, oy)
          IN IF b = Null \/ sc > b.score
             THEN [piece |-> p, shape |-> shape, ox |-> cx, oy |-> cy, score |-> sc]
             ELSE b

\* mutant: a later candidate of equal score replaces the best (>= for >)
searchStepLastWins(m, p, rot, k, cx, cy, b) ==
  LET shape == PIECES[p][rot + 1]
      ox    == cx - shape[k][1]
      oy    == cy - shape[k][2]
  IN IF ~canPlaceOnMask(m, shape, ox, oy) THEN b
     ELSE LET sc == placementScore(shape, ox, oy)
          IN IF b = Null \/ sc >= b.score
             THEN [piece |-> p, shape |-> shape, ox |-> ox, oy |-> oy, score |-> sc]
             ELSE b

\* one pass of the innermost loop body: offset k of shape PIECES[p][rot]
\* lands on the selected cell (cx, cy); b is the current best
searchStep(m, p, rot, k, cx, cy, b) ==
  LET shape == PIECES[p][rot + 1]
      ox    == cx - shape[k][1]
      oy    == cy - shape[k][2]
  IN IF ~canPlaceOnMask(m, shape, ox, oy) THEN b
     ELSE LET sc == placementScore(shape, ox, oy)
          IN IF b = Null \/ sc > b.score
             THEN [piece |-> p, shape |-> shape, ox |-> ox, oy |-> oy, score |-> sc]
             ELSE b

\* for (const [dx, dy] of shape)
RECURSIVE searchOffsets(_, _, _, _, _, _, _)
searchOffsets(m, p, rot, k, cx, cy, b) ==
  IF k > Len(PIECES[p][rot + 1]) THEN b
  ELSE LET nb == searchStep(m, p, rot, k, cx, cy, b)
       IN IF nb = Null
          THEN searchOffsets(m, p, rot, k + 1, cx, cy, Null)
          ELSE searchOffsets(m, p, rot, k + 1, cx, cy, nb)

\* for (let rot = 0; rot < 4; rot++)
RECURSIVE searchRots(_, _, _, _, _, _)
searchRots(m, p, rot, cx, cy, b) ==
  IF rot >= 4 THEN b
  ELSE LET nb == searchOffsets(m, p, rot, 1, cx, cy, b)
       IN IF nb = Null
          THEN searchRots(m, p, rot + 1, cx, cy, Null)
          ELSE searchRots(m, p, rot + 1, cx, cy, nb)

\* for (const p of PIECE_ORDER)
RECURSIVE searchPieces(_, _, _, _, _)
searchPieces(m, n, cx, cy, b) ==
  IF n > Len(PIECE_ORDER) THEN b
  ELSE LET nb == searchRots(m, PIECE_ORDER[n], 0, cx, cy, b)
       IN IF nb = Null
          THEN searchPieces(m, n + 1, cx, cy, Null)
          ELSE searchPieces(m, n + 1, cx, cy, nb)

searchBest(m, cx, cy) == searchPieces(m, 1, cx, cy, Null)

\* mutant: the fallback's score is the count of the cell, not its level
fallbackPlacementOfCount(cx, cy) ==
  LET lvl == bucketLevel(grid[cy][cx])
  IN [piece |-> "P", shape |-> UNIT_SHAPE, ox |-> cx, oy |-> cy,
      color |-> LEVEL_COLOR[lvl], score |-> grid[cy][cx]]

\* the 1x1 fallback placement
fallbackPlacement(cx, cy) ==
  LET lvl == bucketLevel(grid[cy][cx])
  IN [piece |-> "P", shape |-> UNIT_SHAPE, ox |-> cx, oy |-> cy,
      color |-> LEVEL_COLOR[lvl], score |-> lvl]

(***************************************************************************)
(* Inputs: grids of H rows and w columns whose contributions lie in a      *)
(* window of at most MaxCells cells, counted row by row from the top row   *)
(* downward or from the bottom row upward, with two count profiles.        *)
(***************************************************************************)
Widths == 1..MaxW

\* the window's cells <<x, y>>
Window(w, fromTop) ==
  {c \in (0..(w-1)) \X (0..(H-1)) :
     LET row == IF fromTop THEN c[2] ELSE H - 1 - c[2]
     IN row * w + c[1] < MaxCells}

\* profile 0: every contributed day has count 1 (all scores tie);
\* profile 1: counts 1, 4, 7, 10 (levels 1..4) by position
ProfileCount(k, x, y) == IF k = 0 THEN 1 ELSE 1 + 3 * ((x + 2 * y) % 4)

WindowGrid(w, occ, k) ==
  [y \in 0..(H-1) |-> [x \in 0..(w-1) |->
     IF <<x, y>> \in occ THEN ProfileCount(k, x, y) ELSE 0]]

WindowGrids(w) ==
  {WindowGrid(w, occ, k) :
     occ \in (SUBSET Window(w, TRUE)) \cup (SUBSET Window(w, FALSE)),
     k \in {0, 1}}

\* the grids of the seeded runs: the first n cells of the bottom window
PrefixGrid(w, n) ==
  WindowGrid(w, {c \in Window(w, FALSE) : (H - 1 - c[2]) * w + c[1] < n}, 1)

\* rank of cell (x, y), x + y even, among such cells column by column
SparseRank(x, y) ==
  (x \div 2) * H + (IF x % 2 = 0 THEN y \div 2 ELSE ((H + 1) \div 2) + ((y - 1) \div 2))

\* a 53-week grid with n contributed cells, no two of them adjacent
SparseGrid(n) ==
  [y \in 0..(H-1) |-> [x \in 0..(MAX_WEEKS-1) |->
     IF (x + y) % 2 = 0 /\ SparseRank(x, y) < n THEN ProfileCount(1, x, y) ELSE 0]]

\* a 1-week grid whose contributed days are isolated: counts 0,3,0,5,0,0,9
ExampleColumn == <<0, 3, 0, 5, 0, 0, 9>>
ExampleGrid == [y \in 0..(H-1) |-> [x \in 0..0 |-> ExampleColumn[y + 1]]]

SmallInputs == {[W |-> w, grid |-> PrefixGrid(w, n)] : w \in Widths, n \in 0..MaxCells}

\* the most placements whose steps of stepDur fit in runDur - 0.5
StepThreshold == (RUN_DUR - RUN_TAIL) \div STEP_DUR

SparseInputs ==
  {[W |-> MAX_WEEKS, grid |-> SparseGrid(n)] :
     n \in {StepThreshold, StepThreshold + 1, SparseCells}}

\* seeds hashString may return: the smallest and the largest 32-bit values
Seeds == {<<0, s>> : s \in 0..MaxSeed} \cup {<<HALF - 1, HALF - 1 - s>> : s \in 0..MaxSeed}

\* values an arbitrary RNG stream may return, as 32-bit numerators
RngDraws == {<<(k * HALF) \div RngRes, 0>> : k \in 0..(RngRes - 1)}

(***************************************************************************)
(* tileToPlacements(rng), one action per step of its loop.                 *)
(***************************************************************************)
\* renderSvg is handed the finished heatmap: the week list, the dates, the heat
\* layer and the sweep script play no part in the tiler
HeatmapGiven ==
  /\ weeks = <<>>
  /\ dates = <<>>
  /\ heat = <<>>
  /\ sweep = <<>>

\* nothing rendered, written or thrown yet
MainIdle ==
  /\ svg = <<>>
  /\ file = <<>>
  /\ err = FALSE

\* no generator made yet
RngIdle == gens = <<>>

\* the row-build variant has not run
RowIdle ==
  /\ appearTime = <<>>
  /\ drops = <<>>

\* simulateGame has not run
GameIdle ==
  /\ pieces = 0
  /\ board = <<>>
  /\ score = 0
  /\ lines = 0
  /\ steps = <<>>
  /\ landed = 0

\* buildAnimatedSVG has not run
SweepIdle ==
  /\ order = <<>>
  /\ dur = 0
  /\ cursorPath = <<>>
  /\ pops = <<>>

\* the other scripts of the repository play no part
OthersIdle == MainIdle /\ RngIdle /\ RowIdle /\ GameIdle /\ SweepIdle

\* const mask = makeMaskFromGrid(); const placements = []; let safety = 0;
InitPack ==
  /\ mask = makeMaskFromGrid
  /\ placements = <<>>
  /\ safety = 0
  /\ cell = Null
  /\ best = Null

\* while (safety++ < 4000) { cell = chooseNextCell(mask, rng); if (!cell) break;
\* ... } return placements;   u is the value rng() returns if it is called
Choose(u) ==
  /\ pc = "choose"
  /\ safety' = safety + 1
  /\ IF safety < SAFETY_CAP
     THEN /\ cell' = chooseNextCell(mask, u)
          /\ pc' = IF cell' = Null THEN "done" ELSE "search"
     ELSE /\ cell' = cell
          /\ pc' = "done"
  /\ returned' = IF pc' = "done" THEN Append(returned, placements) ELSE returned
  /\ best' = Null
  /\ UNCHANGED <<W, grid, seed, r, mask, placements, overlay, heatVars, auxVars>>

\* the three nested loops over piece, rotation and offset
Search ==
  /\ pc = "search"
  /\ best' = searchBest(mask, cell.x, cell.y)
  /\ pc' = "commit"
  /\ UNCHANGED <<W, grid, seed, r, t, mask, placements, safety, cell, overlay, returned, heatVars, auxVars>>

\* if (best) { applyPlace; push } else { 1x1 fallback }
Commit ==
  /\ pc = "commit"
  /\ LET pl == IF best # Null THEN best ELSE fallbackPlacement(cell.x, cell.y)
     IN /\ mask' = applyPlace(mask, pl.shape, pl.ox, pl.oy)
        /\ placements' = Append(placements, pl)
  /\ pc' = "choose"
  /\ UNCHANGED <<W, grid, seed, r, t, safety, cell, best, overlay, returned, heatVars, auxVars>>

(***************************************************************************)
(* Spec: one call tileToPlacements(rng) on an arbitrary RNG stream.        *)
(***************************************************************************)
Init ==
  /\ W \in Widths
  /\ grid \in WindowGrids(W) \cup (IF W = 1 THEN {ExampleGrid} ELSE {})
  /\ seed = <<0, 0>>
  /\ r = 0
  /\ t = <<0, 0>>
  /\ overlay = <<>>
  /\ returned = <<>>
  /\ pc = "choose"
  /\ HeatmapGiven
  /\ OthersIdle
  /\ InitPack

ChooseAny == \E u \in RngDraws : Choose(u) /\ t' = t

Next == ChooseAny \/ Search \/ Commit

Spec == Init /\ [][Next]_vars

(***************************************************************************)
(* Calls of tileToPlacements on a mulberry32 stream.                       *)
(***************************************************************************)
\* const rng = mulberry32(sd); tileToPlacements(rng) up to its loop
Invoke(sd) ==
  /\ t' = mulberry32(sd)
  /\ mask' = makeMaskFromGrid
  /\ placements' = <<>>
  /\ safety' = 0
  /\ cell' = Null
  /\ best' = Null
  /\ pc' = "choose"

\* chooseNextCell calls rng() once, and only when some row has a cell left
ChooseRng ==
  /\ Choose(rngValue(rngAdvance(t)))
  /\ t' = IF safety < SAFETY_CAP /\ ChooseCallsRng(mask) THEN rngAdvance(t) ELSE t

InitSeeded(inputs) ==
  /\ \E in \in inputs : W = in.W /\ grid = in.grid
  /\ seed \in Seeds
  /\ r = 0
  /\ t = <<0, 0>>
  /\ overlay = <<>>
  /\ returned = <<>>
  /\ pc = "call"
  /\ HeatmapGiven
  /\ OthersIdle
  /\ InitPack

(***************************************************************************)
(* SpecRuns: the overlay timeline of renderSvg, N_RUNS runs.               *)
(***************************************************************************)
\* mutant: the step is never compressed (stepDur whatever the run holds)
localStepNumFixed(n) == IF n > 0 THEN STEP_DUR * n ELSE STEP_DUR

\* Math.min(stepDur, (runDur - 0.5) / n) as localStepNum(n) / localStepDen(n)
localStepNum(n) == IF n > 0 THEN Min(STEP_DUR * n, RUN_DUR - RUN_TAIL) ELSE STEP_DUR
localStepDen(n) == IF n > 0 THEN n ELSE 1

\* the arguments of renderFallingPiece for placement i (0-based) of run `run`:
\* begin = baseT + i * localStep = beginNum / beginDen hundredths of a second
timelineEntry(pls, run, i) ==
  LET pl == pls[i + 1]
      n  == Len(pls)
  IN [run |-> run, piece |-> pl.piece, shape |-> pl.shape, ox |-> pl.ox,
      fromY |-> FROM_Y, toY |-> pl.oy,
      beginNum |-> run * RUN_DUR * localStepDen(n) + i * localStepNum(n),
      beginDen |-> localStepDen(n)]

\* the layout of renderSvg, in pixels
CELL == 12
GAP == 2
LEFT_LABEL_W == 34
TOP_LABEL_H == 22
PAD == 16
wellW == W * (CELL + GAP) - GAP
wellH == H * (CELL + GAP) - GAP
gridX0 == PAD + LEFT_LABEL_W
gridY0 == PAD + TOP_LABEL_H

\* mutant: the anchor column is laid out without the gap between cells
fallingPieceBlocksNoGap(e) ==
  LET x0     == gridX0 + e.ox * CELL
      yStart == gridY0 + e.fromY * (CELL + GAP)
  IN [k \in 1..Len(e.shape) |->
        [bx |-> x0 + e.shape[k][1] * (CELL + GAP),
         by |-> yStart + e.shape[k][2] * (CELL + GAP)]]

\* renderFallingPiece: the corner (bx, by) of the rect of each block of the
\* entry, as drawn before the translation
fallingPieceBlocks(e) ==
  LET x0     == gridX0 + e.ox * (CELL + GAP)
      yStart == gridY0 + e.fromY * (CELL + GAP)
  IN [k \in 1..Len(e.shape) |->
        [bx |-> x0 + e.shape[k][1] * (CELL + GAP),
         by |-> yStart + e.shape[k][2] * (CELL + GAP)]]

\* mutant: the translation goes to yEnd, the start is not subtracted
fallingPieceTranslateToEnd(e) == gridY0 + e.toY * (CELL + GAP)

\* renderFallingPiece: dyTrans = yEnd - yStart of animateTransform from "0 0"
\* to "0 dyTrans"
fallingPieceTranslate(e) ==
  LET yStart == gridY0 + e.fromY * (CELL + GAP)
      yEnd   == gridY0 + e.toY * (CELL + GAP)
  IN yEnd - yStart

\* for (let r = 0; r < N_RUNS; r++) { runSeed; rng; baseT; tileToPlacements(rng)
StartRun ==
  /\ pc = "call"
  /\ r < N_RUNS
  /\ Invoke(runSeed(seed, r))
  /\ UNCHANGED <<W, grid, seed, r, overlay, returned, heatVars, auxVars>>

\* localStep; for (let i = 0; i < placements.length; i++) overlay += ... }
Schedule ==
  /\ pc = "done"
  /\ LET pls == returned[Len(returned)]
     IN overlay' = overlay \o [k \in 1..Len(pls) |-> timelineEntry(pls, r, k - 1)]
  /\ r' = r + 1
  /\ pc' = "call"
  /\ UNCHANGED <<W, grid, seed, t, mask, placements, safety, cell, best, returned, heatVars, auxVars>>

InitRuns == InitSeeded(SmallInputs \cup SparseInputs)

NextRuns == StartRun \/ ChooseRng \/ Search \/ Commit \/ Schedule

SpecRuns == InitRuns /\ [][NextRuns]_vars

(***************************************************************************)
(* SpecTwice: two independent calls of tileToPlacements on the same grid,  *)
(* each with its own generator mulberry32(seed).                           *)
(***************************************************************************)
Call ==
  /\ pc \in {"call", "done"}
  /\ Len(returned) < 2
  /\ Invoke(seed)
  /\ UNCHANGED <<W, grid, seed, r, overlay, returned, heatVars, auxVars>>

InitTwice == InitSeeded(SmallInputs)

NextTwice == Call \/ ChooseRng \/ Search \/ Commit

SpecTwice == InitTwice /\ [][NextTwice]_vars

(***************************************************************************)
(* buildHeatmap(weeks), the heat layer of renderSvg, and the colour grid of *)
(* the sweep script, on one list of weeks.                                 *)
(***************************************************************************)
\* date: null
NO_DATE == 0

\* counts on both sides of every threshold of bucketLevel and of colorFor
CountCycle == <<0, 1, 2, 3, 5, 6, 7, 9, 10, 14, 15, 20>>

\* contributionDays[d] of week i: the calendar lists the days of a week from
\* weekday 0 on, dates are numbered from 1
DayRecord(i, d, k) ==
  [date |-> 1 + 7 * i + d,
   contributionCount |-> CountCycle[((7 * i + d + k) % Len(CountCycle)) + 1],
   weekday |-> d]

\* n weeks, oldest first; the last, current, week has only its first `last` days
WeekList(n, last, k) ==
  [i \in 1..n |->
     [d \in 1..(IF i = n THEN last ELSE H) |-> DayRecord(i - 1, d - 1, k)]]

WeekCounts == (0..MaxShortWeeks) \cup ((MAX_WEEKS - 1)..(MAX_WEEKS + MaxExtraWeeks))

WeekLists == {WeekList(n, last, k) : n \in WeekCounts, last \in 1..H, k \in 0..MaxShift}

\* const W = Math.min(53, weeks.length)
heatmapW(ws) == Min(MAX_WEEKS, Len(ws))

\* mutant: the oldest w weeks are kept (slice(0, W))
sliceFirst(ws, w) == SubSeq(ws, 1, w)

\* weeks.slice(-W); slice(-0) is slice(0), the whole array
sliceLast(ws, w) == IF w = 0 THEN ws ELSE SubSeq(ws, Len(ws) - w + 1, Len(ws))

\* d?.contributionCount ?? 0 and d?.date ?? null for d = days?.[y]
countAt(days, y) == IF y < Len(days) THEN days[y + 1].contributionCount ELSE 0
dateAt(days, y) == IF y < Len(days) THEN days[y + 1].date ELSE NO_DATE

heatmapGrid(ws) ==
  LET w     == heatmapW(ws)
      slice == sliceLast(ws, w)
  IN [y \in 0..(H-1) |-> [x \in 0..(w-1) |-> countAt(slice[x + 1], y)]]

heatmapDates(ws) ==
  LET w     == heatmapW(ws)
      slice == sliceLast(ws, w)
  IN [y \in 0..(H-1) |-> [x \in 0..(w-1) |-> dateAt(slice[x + 1], y)]]

\* const heatmap = buildHeatmap(weeks); the seed is the hash of a string that
\* holds the user name: any of Seeds
BuildHeatmap ==
  /\ pc = "fetched"
  /\ W' = heatmapW(weeks)
  /\ grid' = heatmapGrid(weeks)
  /\ dates' = heatmapDates(weeks)
  /\ seed' \in Seeds
  /\ pc' = "built"
  /\ UNCHANGED <<r, t, mask, placements, safety, cell, best, overlay, returned, weeks, heat, sweep,
                 auxVars>>

\* renderSvg: the heatmap truth layer, fill = LEVEL_COLOR[bucketLevel(grid[y][x])]
RenderHeat ==
  /\ pc = "built"
  /\ heat' = [y \in 0..(H-1) |-> [x \in 0..(W-1) |-> LEVEL_COLOR[bucketLevel(grid[y][x])]]]
  /\ pc' = "call"
  /\ UNCHANGED <<W, grid, seed, r, t, mask, placements, safety, cell, best, overlay, returned,
                 weeks, dates, sweep, auxVars>>

\* main of the sweep script on the same weeks: rows = 7, cols = weeks.length,
\* grid[r][c] = colorFor(days[r]?.contributionCount ?? 0)
SweepGrid ==
  /\ sweep = <<>>
  /\ sweep' = [row \in 0..(H-1) |-> [c \in 0..(Len(weeks)-1) |->
                 colorFor(countAt(weeks[c + 1], row))]]
  /\ UNCHANGED <<W, grid, seed, r, t, mask, placements, safety, cell, best, pc, overlay,
                 returned, weeks, dates, heat, auxVars>>

InitHeatmap ==
  /\ weeks \in WeekLists
  /\ W = 0
  /\ grid = [y \in 0..(H-1) |-> <<>>]
  /\ dates = <<>>
  /\ heat = <<>>
  /\ sweep = <<>>
  /\ seed = <<0, 0>>
  /\ r = 0
  /\ t = <<0, 0>>
  /\ overlay = <<>>
  /\ returned = <<>>
  /\ pc = "fetched"
  /\ OthersIdle
  /\ InitPack

\* the scripts up to the first call of tileToPlacements
NextHeatmap == BuildHeatmap \/ RenderHeat \/ StartRun \/ SweepGrid

SpecHeatmap == InitHeatmap /\ [][NextHeatmap]_vars

(***************************************************************************)
(* Vocabulary of the properties.                                           *)
(***************************************************************************)
\* the cells <<x, y>> of the grid, and those with count > 0
GridCells == (0..(W-1)) \X (0..(H-1))
OccupiedCells == {c \in GridCells : grid[c[2]][c[1]] > 0}

\* the cells <<x, y>> a placement covers
CoveredCells(pl) == {<<pl.ox + pl.shape[k][1], pl.oy + pl.shape[k][2]>> : k \in 1..Len(pl.shape)}

\* the cells still set in the mask
MaskCells == {c \in GridCells : mask[c[2]][c[1]]}

\* every placement list a call of tileToPlacements has returned
ReturnedLists == {returned[k] : k \in 1..Len(returned)}

\* C1: the placements returned by tileToPlacements cover exactly the cells with
\* count > 0: every such cell lies in exactly one placement, no two placements
\* share a cell, and no placement covers a cell whose count is 0.
C1_CoveragePartition ==
  \A pls \in ReturnedLists :
    /\ \A i \in 1..Len(pls) :
         /\ CoveredCells(pls[i]) \subseteq OccupiedCells
         /\ Cardinality(CoveredCells(pls[i])) = Len(pls[i].shape)
    /\ \A i, j \in 1..Len(pls) :
         i # j => CoveredCells(pls[i]) \cap CoveredCells(pls[j]) = {}
    /\ \A c \in OccupiedCells :
         Cardinality({i \in 1..Len(pls) : c \in CoveredCells(pls[i])}) = 1

\* a returned list that mixes a tetromino and a 1x1 fallback
C1_Witness ==
  \E pls \in ReturnedLists :
    /\ \E i \in 1..Len(pls) : pls[i].piece = "P"
    /\ \E i \in 1..Len(pls) : pls[i].piece # "P"
    /\ OccupiedCells # GridCells

\* C3: every cell (ox + dx, oy + dy) of every placement, returned or being
\* built, satisfies 0 <= ox + dx < W and 0 <= oy + dy < H.
C3_Bounds ==
  \A pls \in ReturnedLists \cup {placements} :
    \A i \in 1..Len(pls) : \A k \in 1..Len(pls[i].shape) :
      /\ 0 <= pls[i].ox + pls[i].shape[k][1]
      /\ pls[i].ox + pls[i].shape[k][1] < W
      /\ 0 <= pls[i].oy + pls[i].shape[k][2]
      /\ pls[i].oy + pls[i].shape[k][2] < H

\* a returned tetromino whose anchor is outside the grid, one above the top
\* row and one left of the first column
C3_Witness ==
  \E pls \in ReturnedLists :
    /\ \E i \in 1..Len(pls) : pls[i].oy < 0
    /\ \E i \in 1..Len(pls) : pls[i].ox < 0

\* the variant of the loop: three steps per cell still in the mask
Variant ==
  3 * Cardinality(MaskCells)
  + (CASE pc = "choose" -> 3 [] pc = "search" -> 2 [] pc = "commit" -> 1 [] OTHER -> 0)

C2_Determinism == Len(returned) = 2 => returned[1] = returned[2]

\* both calls have returned, after choosing among several cells of a row
C2_Witness ==
  /\ Len(returned) = 2
  /\ Len(returned[1]) >= 2
  /\ \E i \in 1..Len(returned[1]) : returned[1][i].piece # "P"
  /\ Cardinality({c \in OccupiedCells : c[2] = H - 1}) >= 3
  /\ seed[1] # 0

\* C6: within each run the begin times are non-decreasing in the order of the
\* placements, and every begin time lies in [run * runDur, run * runDur + runDur].
C6_SchedulerMonotone ==
  \A k \in 1..Len(overlay) :
    LET e == overlay[k]
    IN /\ e.run * RUN_DUR * e.beginDen <= e.beginNum
       /\ e.beginNum <= (e.run + 1) * RUN_DUR * e.beginDen
       /\ (k < Len(overlay) /\ overlay[k + 1].run = e.run)
            => e.beginNum * overlay[k + 1].beginDen <= overlay[k + 1].beginNum * e.beginDen

\* a later run with so many placements that the step is compressed below stepDur
C6_Witness ==
  \E k \in 1..Len(overlay) :
    /\ overlay[k].run >= 1
    /\ STEP_DUR * overlay[k].beginDen > RUN_DUR - RUN_TAIL
    /\ overlay[k].beginNum > (overlay[k].run * RUN_DUR + (RUN_DUR - 2 * RUN_TAIL)) * overlay[k].beginDen

\* C7: when every cell of the grid has count 0, every call of tileToPlacements
\* returns the empty list, one call per run, and no run adds a timeline entry.
C7_EmptyGrid ==
  OccupiedCells = {} =>
    /\ placements = <<>>
    /\ overlay = <<>>
    /\ \A pls \in ReturnedLists : pls = <<>>
    /\ (pc = "call" => Len(returned) = r)
    /\ pc \in {"call", "choose", "done"}

\* all runs of an empty grid are over
C7_Witness ==
  /\ OccupiedCells = {}
  /\ r = N_RUNS
  /\ Len(returned) = N_RUNS
  /\ W > 1

\* whether every cell of the set is in the grid and still set in the mask
Legal(cells) ==
  \A c \in cells :
    /\ c[1] \in 0..(W-1)
    /\ c[2] \in 0..(H-1)
    /\ mask[c[2]][c[1]]

\* an alignment <<p, rot, k>>: offset k of rotation rot of kind p lands on the
\* selected cell
AlignmentShape(a) == PIECES[a[1]][a[2] + 1]
AlignmentOx(a) == cell.x - AlignmentShape(a)[a[3]][1]
AlignmentOy(a) == cell.y - AlignmentShape(a)[a[3]][2]
AlignmentCells(a) ==
  LET sh == AlignmentShape(a)
      ox == cell.x - sh[a[3]][1]
      oy == cell.y - sh[a[3]][2]
  IN {<<ox + sh[k][1], oy + sh[k][2]>> : k \in 1..4}

\* the alignments of the tetrominoes that are legal on the selected cell
LegalAlignments ==
  {a \in (DOMAIN PIECES) \X (0..3) \X (1..4) : Legal(AlignmentCells(a))}

\* the last placement of the list after a step
Committed == placements'[Len(placements')]

\* C8: a step commits the 1x1 placement "P" if and only if no alignment of any
\* tetromino kind and rotation on the selected cell is legal in the mask; the
\* 1x1 placement covers exactly the selected cell, which is still in the mask.
C8_FallbackRule ==
  [][pc = "commit" =>
       /\ Len(placements') = Len(placements) + 1
       /\ (Committed.piece = "P") <=> (LegalAlignments = {})
       /\ Committed.piece = "P" =>
            /\ Committed.shape = UNIT_SHAPE
            /\ CoveredCells(Committed) = {<<cell.x, cell.y>>}
            /\ Legal(CoveredCells(Committed))]_vars

\* a 1x1 fallback was just committed after a tetromino, with cells left
C8_Witness ==
  /\ pc = "choose"
  /\ Len(placements) >= 2
  /\ placements[Len(placements)].piece = "P"
  /\ placements[1].piece # "P"
  /\ MaskCells # {}

\* sum of the levels of the cells of a set
LevelSum(cells) ==
  LET n(l) == Cardinality({c \in cells : bucketLevel(grid[c[2]][c[1]]) = l})
  IN n(1) + 2 * n(2) + 3 * n(3) + 4 * n(4)

\* the order of the search: kind I, O, T, S, Z, J, L, then rotation, then offset
KindRank(p) ==
  CASE p = "I" -> 1 [] p = "O" -> 2 [] p = "T" -> 3 [] p = "S" -> 4
    [] p = "Z" -> 5 [] p = "J" -> 6 [] p = "L" -> 7

Earlier(a, b) ==
  \/ KindRank(a[1]) < KindRank(b[1])
  \/ a[1] = b[1] /\ a[2] < b[2]
  \/ a[1] = b[1] /\ a[2] = b[2] /\ a[3] < b[3]

AlignmentPlacement(a) ==
  [piece |-> a[1], shape |-> AlignmentShape(a), ox |-> AlignmentOx(a),
   oy |-> AlignmentOy(a), score |-> LevelSum(AlignmentCells(a))]

\* C9: when some tetromino alignment is legal, the placement committed is the
\* first one, in the order of the search, among the legal alignments of maximal
\* score (the sum of the levels of the covered cells).
C9_BestCandidate ==
  [][pc = "commit" =>
       LET legal == LegalAlignments
           sums  == [a \in legal |-> LevelSum(AlignmentCells(a))]
           top   == {a \in legal : \A b \in legal : sums[b] <= sums[a]}
       IN legal # {} =>
            \E a \in top :
              /\ \A b \in top : ~Earlier(b, a)
              /\ Committed = AlignmentPlacement(a)]_vars

\* the search has kept a best among legal alignments of different scores,
\* and another placement ties with the best
C9_Witness ==
  /\ pc = "commit"
  /\ best # Null
  /\ \E a, b \in LegalAlignments :
       LevelSum(AlignmentCells(a)) < LevelSum(AlignmentCells(b))
  /\ \E a \in LegalAlignments :
       /\ AlignmentPlacement(a).score = best.score
       /\ AlignmentPlacement(a) # best
       /\ AlignmentCells(a) # CoveredCells(best)

\* C10: the selected cell is still set in the mask and lies in the bottom-most
\* row that holds a cell of the mask; the placement found, and the placement
\* committed, cover the selected cell.
C10_CellSelection ==
  /\ pc \in {"search", "commit"} =>
       /\ cell # Null
       /\ <<cell.x, cell.y>> \in MaskCells
       /\ \A c \in MaskCells : c[2] <= cell.y
  /\ (pc = "commit" /\ best # Null) => <<cell.x, cell.y>> \in CoveredCells(best)
  /\ (pc = "choose" /\ placements # <<>>) =>
       /\ <<cell.x, cell.y>> \in CoveredCells(placements[Len(placements)])
       /\ <<cell.x, cell.y>> \notin MaskCells

\* a cell chosen above the bottom row, once that row is consumed, and not the
\* first of the cells left in its row
C10_Witness ==
  /\ pc = "search"
  /\ cell.y < H - 1
  /\ \E x \in 0..(W-1) : grid[H - 1][x] > 0
  /\ Len(RowXs(mask, cell.y, 0)) >= 2
  /\ cell.x # RowXs(mask, cell.y, 0)[1]

\* no cell with count > 0 has a neighbour with count > 0 above, below or beside it
Isolated ==
  \A c, d \in OccupiedCells :
    ~(\/ c[1] = d[1] /\ c[2] = d[2] + 1
      \/ c[2] = d[2] /\ c[1] = d[1] + 1)

\* C11: on a grid whose cells with count > 0 are pairwise non-adjacent, every
\* placement is the 1x1 fallback, and the list returned holds exactly one per
\* such cell, anchored at the cell, with score bucketLevel(count of the cell).
C11_IsolatedCells ==
  Isolated =>
    /\ \A i \in 1..Len(placements) : placements[i].piece = "P"
    /\ \A pls \in ReturnedLists :
         /\ Len(pls) = Cardinality(OccupiedCells)
         /\ \A c \in OccupiedCells :
              \E i \in 1..Len(pls) :
                /\ pls[i].piece = "P"
                /\ pls[i].shape = UNIT_SHAPE
                /\ pls[i].ox = c[1] /\ pls[i].oy = c[2]
                /\ pls[i].score = bucketLevel(grid[c[2]][c[1]])

\* the call on the column 0,3,0,5,0,0,9 has returned: scores 3, 2, 2 bottom up
C11_Witness ==
  /\ grid = ExampleGrid
  /\ Len(returned) = 1
  /\ [i \in 1..Len(returned[1]) |-> returned[1][i].score] = <<3, 2, 2>>
  /\ [i \in 1..Len(returned[1]) |-> returned[1][i].oy] = <<6, 3, 1>>

\* the cells with count > 0 are four consecutive cells of one row
HorizontalRun ==
  \E y \in 0..(H-1), x0 \in 0..(W-1) : OccupiedCells = {<<x0 + i, y>> : i \in 0..3}

\* C12: when the cells with count > 0 are exactly four consecutive cells of one
\* row, the list returned is one placement, of kind "I", covering the four cells.
C12_RunOfFour ==
  HorizontalRun =>
    \A pls \in ReturnedLists :
      /\ Len(pls) = 1
      /\ pls[1].piece = "I"
      /\ CoveredCells(pls[1]) = OccupiedCells

\* the call has returned on a run in the top row: the anchor of the "I" lies
\* one row above the grid
C12_Witness ==
  /\ HorizontalRun
  /\ Len(returned) = 1
  /\ returned[1][1].piece = "I"
  /\ returned[1][1].oy < 0

\* C19: the score of every placement, tetromino or 1x1, is the sum of the
\* levels of the cells it covers; it is at least the number of cells covered
\* and at most four times that number.
C19_PlacementScore ==
  \A pls \in ReturnedLists \cup {placements} :
    \A i \in 1..Len(pls) :
      /\ pls[i].score = LevelSum(CoveredCells(pls[i]))
      /\ Cardinality(CoveredCells(pls[i])) <= pls[i].score
      /\ pls[i].score <= 4 * Cardinality(CoveredCells(pls[i]))

\* a returned list with a tetromino over cells of several levels and a 1x1
\* placement on a cell of level 2 or more
C19_Witness ==
  \E pls \in ReturnedLists :
    /\ \E i \in 1..Len(pls) :
         /\ pls[i].piece # "P"
         /\ pls[i].score > 4 /\ pls[i].score < 16
         /\ \E c, d \in CoveredCells(pls[i]) : grid[c[2]][c[1]] # grid[d[2]][d[1]]
    /\ \E i \in 1..Len(pls) : pls[i].piece = "P" /\ pls[i].score >= 2

\* (seed + r * 10007) mod 2^32, by halves
RunSeedWord ==
  LET lo == seed[2] + ((r * RUN_PRIME) % HALF)
      hi == seed[1] + ((r * RUN_PRIME) \div HALF) + (lo \div HALF)
  IN <<hi % HALF, lo % HALF>>

\* the list pls covers each cell with count > 0 exactly once and nothing else
Partition(pls) ==
  /\ \A i \in 1..Len(pls) : CoveredCells(pls[i]) \subseteq OccupiedCells
  /\ \A c \in OccupiedCells :
       Cardinality({i \in 1..Len(pls) : c \in CoveredCells(pls[i])}) = 1

\* C13: every run enters the loop of tileToPlacements with a mask equal to the
\* cells with count > 0, an empty list and a generator seeded with
\* (seed + r * 10007) mod 2^32, whatever the runs before it did; no step changes
\* the grid, its width or the base seed; and the list each run returns, the
\* first and the later ones, covers every cell with count > 0 exactly once.
C13_RunIndependence ==
  /\ [][grid' = grid /\ W' = W /\ seed' = seed]_vars
  /\ []((pc = "choose" /\ safety = 0) =>
          /\ mask = [y \in 0..(H-1) |-> [x \in 0..(W-1) |-> grid[y][x] > 0]]
          /\ placements = <<>>
          /\ t = RunSeedWord
          /\ Len(returned) = r)
  /\ [](pc = "done" =>
          /\ Len(returned) = r + 1
          /\ Partition(returned[Len(returned)]))

\* a third or later run has returned a list with a tetromino that differs from
\* the list of the first run
C13_Witness ==
  /\ pc = "done"
  /\ r >= 2
  /\ returned[r + 1] # returned[1]
  /\ \E i \in 1..Len(returned[r + 1]) : returned[r + 1][i].piece # "P"

\* the offsets of a shape as a set, and the set moved so that its least dx
\* and its least dy are 0
OffsetSet(shape) == {shape[k] : k \in 1..Len(shape)}
MinOf(S) == CHOOSE m \in S : \A n \in S : m <= n
Normalized(S) ==
  LET mx == MinOf({c[1] : c \in S})
      my == MinOf({c[2] : c \in S})
  IN {<<c[1] - mx, c[2] - my>> : c \in S}

\* a quarter turn of a set of offsets: (dx, dy) to (-dy, dx)
QuarterTurn(S) == {<<0 - c[2], c[1]>> : c \in S}

\* the catalog has the seven kinds of PIECE_ORDER, four rotations each, of four
\* distinct offsets in 0..3; each rotation is the quarter turn of the one before
CatalogWellFormed ==
  /\ DOMAIN PIECES = {"I", "O", "T", "S", "Z", "J", "L"}
  /\ {PIECE_ORDER[n] : n \in 1..Len(PIECE_ORDER)} = DOMAIN PIECES
  /\ Len(PIECE_ORDER) = 7
  /\ \A p \in DOMAIN PIECES :
       /\ Len(PIECES[p]) = 4
       /\ \A rot \in 1..4 :
            LET shape == PIECES[p][rot]
                next  == PIECES[p][(rot % 4) + 1]
            IN /\ Len(shape) = 4
               /\ Cardinality(OffsetSet(shape)) = 4
               /\ \A k \in 1..4 :
                    /\ 0 <= shape[k][1] /\ shape[k][1] <= 3
                    /\ 0 <= shape[k][2] /\ shape[k][2] <= 3
               /\ Normalized(QuarterTurn(OffsetSet(shape))) = Normalized(OffsetSet(next))

\* C18: PIECES has exactly the kinds I, O, T, S, Z, J, L, the kinds of
\* PIECE_ORDER, each with four rotations of four pairwise distinct offsets with
\* 0 <= dx <= 3 and 0 <= dy <= 3; and each rotation, the fourth back to the
\* first, is the quarter turn of the one before it, up to translation. Every
\* tetromino the tiler commits carries one of these rotations as its shape.
C18_CatalogWellFormed ==
  /\ \A i \in 1..Len(placements) :
       placements[i].piece # "P" =>
         \E rot \in 1..4 : placements[i].shape = PIECES[placements[i].piece][rot]
  /\ CatalogWellFormed

\* the search has committed the fourth rotation of a kind whose rotations differ
C18_Witness ==
  \E i \in 1..Len(placements) :
    /\ placements[i].piece \in {"T", "S", "Z", "J", "L"}
    /\ placements[i].shape = PIECES[placements[i].piece][4]
    /\ placements[i].shape # PIECES[placements[i].piece][2]

\* the level the fixed breakpoints give: <= 0, 1..2, 3..5, 6..9, >= 10
LevelOf(count) ==
  CASE count <= 0 -> 0
    [] count \in 1..2 -> 1
    [] count \in 3..5 -> 2
    [] count \in 6..9 -> 3
    [] count >= 10 -> 4

\* bucketLevel on the counts -MaxCount .. MaxCount: the breakpoints, and
\* non-decreasing
BucketTable ==
  /\ \A c \in (0 - MaxCount)..MaxCount : bucketLevel(c) = LevelOf(c)
  /\ \A c, d \in (0 - MaxCount)..MaxCount : c <= d => bucketLevel(c) <= bucketLevel(d)

\* C14: bucketLevel maps every count to the level 0..4 of the breakpoints
\* <= 0, 1..2, 3..5, 6..9, >= 10 and is non-decreasing; the heat layer shows
\* each cell in the colour of that level; and a cell is in the mask a run starts
\* from exactly when its level is at least 1, which is when its count is > 0.
C14_BucketLevels ==
  /\ BucketTable
  /\ \A y \in DOMAIN heat : \A x \in DOMAIN heat[y] :
       /\ bucketLevel(grid[y][x]) \in 0..4
       /\ heat[y][x] = LEVEL_COLOR[LevelOf(grid[y][x])]
  /\ pc = "choose" =>
       \A y \in 0..(H-1) : \A x \in 0..(W-1) :
         /\ mask[y][x] <=> bucketLevel(grid[y][x]) >= 1
         /\ mask[y][x] <=> grid[y][x] > 0

\* the mask of the first run is built on a 53-week grid in which every level
\* 0..4 occurs
C14_Witness ==
  /\ pc = "choose"
  /\ W = MAX_WEEKS
  /\ heat # <<>>
  /\ \A lvl \in 0..4 :
       \E y \in 0..(H-1), x \in 0..(W-1) : bucketLevel(grid[y][x]) = lvl

\* the level of a colour of the sweep script's palette
SweepLevel(color) == CHOOSE lvl \in 0..4 : SWEEP_COLOR[lvl] = color

\* C15: every mapping from counts to colours gives a count the level
\* bucketLevel gives it: the heat layer shows LEVEL_COLOR[bucketLevel(count)],
\* and colorFor of the sweep script returns the colour of its palette at level
\* bucketLevel(count), for the count of every day of every week.
C15_ConsistentLevels ==
  /\ \A y \in DOMAIN heat : \A x \in DOMAIN heat[y] :
       heat[y][x] = LEVEL_COLOR[bucketLevel(grid[y][x])]
  /\ \A row \in DOMAIN sweep : \A c \in DOMAIN sweep[row] :
       SweepLevel(sweep[row][c]) = bucketLevel(countAt(weeks[c + 1], row))

\* C16: once built, the grid has 7 rows and max(1, min(53, weeks.length))
\* columns; with no week it has 7 rows and 1 column.
C16_GridSize ==
  pc # "fetched" =>
    /\ DOMAIN grid = 0..(H-1)
    /\ H = 7
    /\ W = (IF Min(MAX_WEEKS, Len(weeks)) >= 1 THEN Min(MAX_WEEKS, Len(weeks)) ELSE 1)
    /\ \A y \in DOMAIN grid : DOMAIN grid[y] = 0..(W-1) /\ Len(grid[y]) = W

\* the records of a week with weekday index d
WeekdayRecords(week, d) == {week[k] : k \in {j \in 1..Len(week) : week[j].weekday = d}}

InGridRect(bx, by) ==
  /\ gridX0 <= bx /\ bx + CELL <= gridX0 + wellW
  /\ gridY0 <= by /\ by + CELL <= gridY0 + wellH

\* C20 as claimed: every block of every timeline entry lies in the grid's
\* rectangle at the start of its animation and at its landed position, hence
\* all along its vertical path.
C20_OverlayInGrid ==
  \A n \in 1..Len(overlay) :
    LET blocks == fallingPieceBlocks(overlay[n])
    IN \A k \in 1..Len(blocks) :
         /\ InGridRect(blocks[k].bx, blocks[k].by)
         /\ InGridRect(blocks[k].bx, blocks[k].by + fallingPieceTranslate(overlay[n]))

\* C20 amended: every block of every timeline entry stays within the grid's
\* columns and lands inside the grid's rectangle; it starts wholly above the
\* grid's top edge and moves down, so it is never below its landed position.
C20_OverlayLanding ==
  \A n \in 1..Len(overlay) :
    LET blocks == fallingPieceBlocks(overlay[n])
        dy     == fallingPieceTranslate(overlay[n])
    IN \A k \in 1..Len(blocks) :
         /\ gridX0 <= blocks[k].bx /\ blocks[k].bx + CELL <= gridX0 + wellW
         /\ InGridRect(blocks[k].bx, blocks[k].by + dy)
         /\ blocks[k].by + CELL <= gridY0
         /\ dy > 0

\* the overlay holds a piece anchored left of the grid and a block that lands
\* in the grid's bottom right corner
C20_Witness ==
  /\ \E n \in 1..Len(overlay) : overlay[n].ox < 0
  /\ \E n \in 1..Len(overlay) :
       LET blocks == fallingPieceBlocks(overlay[n])
       IN \E k \in 1..Len(blocks) :
            /\ blocks[k].bx + CELL = gridX0 + wellW
            /\ blocks[k].by + fallingPieceTranslate(overlay[n]) + CELL = gridY0 + wellH

(***************************************************************************)
(* SpecMain: main of the tiler scripts, from the rendered document to the  *)
(* output file and the merge-marker check.                                 *)
(***************************************************************************)
\* the tiler of renderSvg has not been entered
TilerIdle ==
  /\ W = 0
  /\ grid = [y \in 0..(H-1) |-> <<>>]
  /\ seed = <<0, 0>>
  /\ r = 0
  /\ t = <<0, 0>>
  /\ overlay = <<>>
  /\ returned = <<>>
  /\ InitPack

\* the three strings main looks for
MERGE_MARKERS == {"<<<<<<<", "=======", ">>>>>>>"}

\* a document is the sequence of its pieces of text: elements the templates
\* write, and marker lines a conflicted merge leaves inside a template
DocTokens == {"<rect/>", "<text/>"} \cup MERGE_MARKERS

Documents == UNION {[1..n -> DocTokens] : n \in 0..MaxDocLen}

\* svg.includes("<<<<<<<") || svg.includes("=======") || svg.includes(">>>>>>>")
hasMergeMarkers(doc) == \E i \in 1..Len(doc) : doc[i] \in MERGE_MARKERS

\* const svg = renderSvg(heatmap);
RenderSvg ==
  /\ pc = "render"
  /\ svg' \in Documents
  /\ pc' = "write"
  /\ UNCHANGED <<W, grid, seed, r, t, mask, placements, safety, cell, best, overlay, returned,
                 heatVars, file, err, rngVars, rowVars, gameVars, sweepVars>>

\* fs.writeFileSync("output/tetris.svg", svg, "utf-8");
WriteFile ==
  /\ pc = "write"
  /\ file' = svg
  /\ pc' = "check"
  /\ UNCHANGED <<W, grid, seed, r, t, mask, placements, safety, cell, best, overlay, returned,
                 heatVars, svg, err, rngVars, rowVars, gameVars, sweepVars>>

\* if (svg.includes(...)) throw new Error("SVG contains merge markers!");
CheckMarkers ==
  /\ pc = "check"
  /\ err' = hasMergeMarkers(svg)
  /\ pc' = IF err' THEN "thrown" ELSE "exit"
  /\ UNCHANGED <<W, grid, seed, r, t, mask, placements, safety, cell, best, overlay, returned,
                 heatVars, svg, file, rngVars, rowVars, gameVars, sweepVars>>

InitMain ==
  /\ pc = "render"
  /\ TilerIdle
  /\ HeatmapGiven
  /\ OthersIdle

NextMain == RenderSvg \/ WriteFile \/ CheckMarkers

SpecMain == InitMain /\ [][NextMain]_vars

rngCellShared(g) == 1

\* the variable t a closure reads and writes: the one of its own call of
\* mulberry32 (let t = seed >>> 0 is local to the call)
rngCell(g) == g

\* const rng = mulberry32(sd)
MakeRng ==
  /\ Len(gens) < MaxGens
  /\ \E sd \in Seeds : gens' = Append(gens, [seed |-> sd, t |-> mulberry32(sd), out |-> <<>>])
  /\ UNCHANGED <<W, grid, seed, r, t, mask, placements, safety, cell, best, pc, overlay,
                 returned, heatVars, mainVars, rowVars, gameVars, sweepVars>>

\* rng() on generator g: t += 0x6d2b79f5; ...; return (...) / 4294967296
CallRng ==
  /\ \E g \in 1..Len(gens) :
       /\ Len(gens[g].out) < MaxCalls
       /\ LET c  == rngCell(g)
              nt == rngAdvance(gens[c].t)
          IN gens' = [[gens EXCEPT ![c].t = nt] EXCEPT ![g].out = Append(@, rngValue(nt))]
  /\ UNCHANGED <<W, grid, seed, r, t, mask, placements, safety, cell, best, pc, overlay,
                 returned, heatVars, mainVars, rowVars, gameVars, sweepVars>>

InitRng ==
  /\ pc = "rng"
  /\ TilerIdle
  /\ HeatmapGiven
  /\ OthersIdle

NextRng == MakeRng \/ CallRng

SpecRng == InitRng /\ [][NextRng]_vars

\* the state of a generator seeded with sd after k calls
RECURSIVE StateAfter(_, _)
StateAfter(sd, k) == IF k = 0 THEN sd ELSE rngAdvance(StateAfter(sd, k - 1))

\* C22: two generators made with the same seed return identical values on
\* their k-th call, for every k; the state of a generator is private (it
\* depends on the calls made on that generator only, whatever calls were made
\* on the others in between); every value returned is u / 2^32 with an
\* integer 0 <= u < 2^32.
C22_RngReproducible ==
  /\ \A g, h \in 1..Len(gens) :
       gens[g].seed = gens[h].seed =>
         \A k \in 1..Min(Len(gens[g].out), Len(gens[h].out)) :
           gens[g].out[k] = gens[h].out[k]
  /\ \A g \in 1..Len(gens) :
       /\ gens[g].t = StateAfter(gens[g].seed, Len(gens[g].out))
       /\ \A k \in 1..Len(gens[g].out) :
            /\ gens[g].out[k] = rngValue(StateAfter(gens[g].seed, k))
            /\ gens[g].out[k][1] \in 0..(HALF - 1)
            /\ gens[g].out[k][2] \in 0..(HALF - 1)

\* two generators of the same seed have each been called at least twice, and
\* the values of a generator are not all the same
C22_Witness ==
  /\ Len(gens) >= 2
  /\ gens[1].seed = gens[2].seed
  /\ \A g \in 1..2 : Len(gens[g].out) >= 2
  /\ gens[1].out[1] # gens[1].out[2]

(***************************************************************************)
(* Landing positions of the overlay against the heat layer (SpecRuns).     *)
(***************************************************************************)
\* renderSvg, heatmap truth layer: the corner <<px, py>> of the rect of cell (x, y)
cellPx(x, y) == <<gridX0 + x * (CELL + GAP), gridY0 + y * (CELL + GAP)>>

\* C23: for every timeline entry, each block [dx, dy] of the piece is drawn at
\* grid column ox + dx and spawn row -6 + dy, moves only vertically (its x is
\* the drawn one, the translation is "0 dyTrans"), and at the end of the
\* translation is exactly at the pixel position of grid cell (ox + dx, oy + dy),
\* a cell with count > 0 that the placement of the run covers.  The entries
\* of a run are examined when the run has been scheduled; the timeline is only
\* appended to afterwards.
C23_PixelPerfectLanding ==
  \A n \in 1..Len(overlay) :
    LET e      == overlay[n]
        blocks == fallingPieceBlocks(e)
        dyT    == fallingPieceTranslate(e)
    IN (pc = "call" /\ e.run = r - 1) =>
       /\ Len(blocks) = Len(e.shape)
       /\ \A k \in 1..Len(blocks) :
            LET x == e.ox + e.shape[k][1]
                y == e.toY + e.shape[k][2]
            IN /\ <<blocks[k].bx, blocks[k].by>> = cellPx(x, -6 + e.shape[k][2])
               /\ <<blocks[k].bx, blocks[k].by + dyT>> = cellPx(x, y)
               /\ <<x, y>> \in OccupiedCells
               /\ \E i \in 1..Len(returned[e.run + 1]) :
                    LET pl == returned[e.run + 1][i]
                    IN /\ pl.piece = e.piece /\ pl.shape = e.shape
                       /\ pl.ox = e.ox /\ pl.oy = e.toY
                       /\ <<x, y>> \in CoveredCells(pl)

\* the timeline holds a tetromino anchored off the grid's first column and
\* first row, with a block right of and below its anchor, and a 1x1 fallback
C23_Witness ==
  /\ \E n \in 1..Len(overlay) :
       /\ Len(overlay[n].shape) = 4
       /\ overlay[n].ox > 0 /\ overlay[n].toY > 0
       /\ \E k \in 1..4 : overlay[n].shape[k][1] > 0 /\ overlay[n].shape[k][2] > 0
  /\ \E n \in 1..Len(overlay) : Len(overlay[n].shape) = 1

(***************************************************************************)
(* SpecRandom: the overlay of the random-overlay variant of renderSvg      *)
(* (scripts/generate-tetris-svg.js): piecesPerRun pieces per run, each     *)
(* with kind, rotation, column and landing row drawn from the run's RNG.   *)
(***************************************************************************)
PIECES_PER_RUN == 18
\* stepDur = 0.55 s, in hundredths of a second
RANDOM_STEP_DUR == 55
\* runDur = Math.max(piecesPerRun * stepDur + 1.0, 8), in hundredths
RANDOM_RUN_DUR == IF PIECES_PER_RUN * RANDOM_STEP_DUR + 100 >= 800
                  THEN PIECES_PER_RUN * RANDOM_STEP_DUR + 100 ELSE 800
\* const fromY = -4
RANDOM_FROM_Y == -4

\* Math.max(a, Math.min(b, n))
clamp(n, a, b) == LET m == IF b <= n THEN b ELSE n IN IF a >= m THEN a ELSE m

\* Math.floor(rng() * n) for an integer n of either sign, rng() = u / 2^32
FloorMulInt(u, n) ==
  IF n >= 0 THEN FloorMul(u, n)
  ELSE LET a     == u[1] * (-n)
           b     == u[2] * (-n)
           exact == (a + (b \div HALF)) % HALF = 0 /\ b % HALF = 0
       IN -(FloorMul(u, -n) + (IF exact THEN 0 ELSE 1))

\* one pass of the inner loop: four calls of rng() from state st
randomPiece(st, run, i) ==
  LET s1    == rngAdvance(st)
      s2    == rngAdvance(s1)
      s3    == rngAdvance(s2)
      s4    == rngAdvance(s3)
      piece == PIECE_ORDER[FloorMul(rngValue(s1), Len(PIECE_ORDER)) + 1]
      rot   == FloorMul(rngValue(s2), 4)
      ox    == clamp(FloorMulInt(rngValue(s3), W - 3), 0, clamp(W - 4, 0, W - 4))
      toY   == clamp(H - 4 + FloorMul(rngValue(s4), 3), 0, clamp(H - 1, 0, H - 1))
  IN [run |-> run, piece |-> piece, shape |-> PIECES[piece][rot + 1], ox |-> ox,
      fromY |-> RANDOM_FROM_Y, toY |-> toY,
      begin |-> run * RANDOM_RUN_DUR + i * RANDOM_STEP_DUR, rng |-> s4]

\* for (let i = 0; i < piecesPerRun; i++) overlay += renderFallingPiece(...)
RECURSIVE randomPieces(_, _, _)
randomPieces(st, run, i) ==
  IF i >= PIECES_PER_RUN THEN <<>>
  ELSE LET e == randomPiece(st, run, i)
       IN <<e>> \o randomPieces(e.rng, run, i + 1)

\* for (let r = 0; r < N_RUNS; r++) { runSeed; rng; baseT; inner loop }
RandomRun ==
  /\ pc = "overlay"
  /\ r < N_RUNS
  /\ overlay' = overlay \o randomPieces(mulberry32(runSeed(seed, r)), r, 0)
  /\ r' = r + 1
  /\ UNCHANGED <<W, grid, seed, t, mask, placements, safety, cell, best, pc, returned,
                 heatVars, auxVars>>

\* the widths buildHeatmap returns: the narrow ones and the full year
RandomWidths == (0..MaxW) \cup {MAX_WEEKS}

InitRandom ==
  /\ W \in RandomWidths
  /\ grid = [y \in 0..(H-1) |-> [x \in 0..(W-1) |-> 0]]
  /\ seed \in Seeds
  /\ r = 0
  /\ t = <<0, 0>>
  /\ overlay = <<>>
  /\ returned = <<>>
  /\ pc = "overlay"
  /\ HeatmapGiven
  /\ OthersIdle
  /\ InitPack

NextRandom == RandomRun

SpecRandom == InitRandom /\ [][NextRandom]_vars

\* C26: for every run and piece of the random-overlay variant, every block of
\* the landed piece lies in a column in [0, W) and a row in [0, H).
\* Violated: the landing row is 3..5 and shapes reach 3 rows below their
\* anchor; for W < 4 the column is 0 whatever the shape's width.
C26_RandomOverlayInBounds ==
  \A n \in 1..Len(overlay) :
    \A k \in 1..Len(overlay[n].shape) :
      /\ overlay[n].ox + overlay[n].shape[k][1] \in 0..(W - 1)
      /\ overlay[n].toY + overlay[n].shape[k][2] \in 0..(H - 1)

(***************************************************************************)
(* SpecRows: the row-build variant of renderSvg                            *)
(* (scripts/generate-tetris-svg1.js): the appearance times of the          *)
(* contributed tiles and the 1x1 falling blocks, row by row from the       *)
(* bottom.  Times are in hundredths of a second.                           *)
(***************************************************************************)
\* ROW_DUR = 0.75, STAGGER = 0.02, FALL_DUR = 0.55, buildStart = 0.0
ROW_DUR == 75
STAGGER == 2
FALL_DUR == 55
BUILD_START == 0

\* appearTime[y][x] = null
NO_TIME == -1

\* xs: the columns x of row y with grid[y][x] > 0, in increasing order
RECURSIVE contributedXs(_, _)
contributedXs(y, x) ==
  IF x >= W THEN <<>>
  ELSE (IF grid[y][x] > 0 THEN <<x>> ELSE <<>>) \o contributedXs(y, x + 1)

\* for (let i = xs.length - 1; i > 0; i--) { j = Math.floor(rng() * (i + 1));
\* swap xs[i], xs[j] } from generator state st; i and j count from 0
RECURSIVE shuffle(_, _, _)
shuffle(xs, st, i) ==
  IF i <= 0 THEN [xs |-> xs, rng |-> st]
  ELSE LET s1 == rngAdvance(st)
           j  == FloorMul(rngValue(s1), i + 1)
           nx == [xs EXCEPT ![i + 1] = xs[j + 1], ![j + 1] = xs[i + 1]]
       IN \* the test has s1 and nx evaluated before the next pass
          IF s1 = st \/ Len(nx) # Len(xs) THEN [xs |-> nx, rng |-> s1]
          ELSE shuffle(nx, s1, i - 1)

\* rowStart = buildStart + rowIndex * ROW_DUR with rowIndex = (H - 1) - y
rowStart(y) == BUILD_START + ((H - 1) - y) * ROW_DUR

\* the first loop, rows y down to 0, on the one generator rng = mulberry32(seed)
\* in state st: appearTime[y][xs[k]] = rowStart + k * STAGGER + FALL_DUR
RECURSIVE appearTimes(_, _, _)
appearTimes(y, st, acc) ==
  IF y < 0 THEN acc
  ELSE LET sh == shuffle(contributedXs(y, 0), st, Len(contributedXs(y, 0)) - 1)
           row == [x \in 0..(W-1) |->
                     IF \E k \in 1..Len(sh.xs) : sh.xs[k] = x
                     THEN LET k == CHOOSE k \in 1..Len(sh.xs) : sh.xs[k] = x
                          IN rowStart(y) + (k - 1) * STAGGER + FALL_DUR
                     ELSE NO_TIME]
           nacc == [acc EXCEPT ![y] = row]
       IN \* the test has the row evaluated before the next one
          IF nacc = acc /\ Len(sh.xs) > 0 THEN acc
          ELSE appearTimes(y - 1, sh.rng, nacc)

\* const rowSeed = (seed + (y + 1) * 10007) >>> 0
rowSeed(sd, y) ==
  Add32(sd, <<((y + 1) * RUN_PRIME) \div HALF, ((y + 1) * RUN_PRIME) % HALF>>)

\* the second loop, rows y down to 0: one falling block per contributed cell,
\* begin = tFall = rowStart + k * STAGGER in the order of the per-row shuffle
RECURSIVE fallingBlocks(_)
fallingBlocks(y) ==
  IF y < 0 THEN <<>>
  ELSE LET xs0 == contributedXs(y, 0)
           sh  == shuffle(xs0, mulberry32(rowSeed(seed, y)), Len(xs0) - 1)
       IN [k \in 1..Len(sh.xs) |->
             [x |-> sh.xs[k], y |-> y, lvl |-> bucketLevel(grid[y][sh.xs[k]]),
              begin |-> rowStart(y) + (k - 1) * STAGGER]]
          \o fallingBlocks(y - 1)

\* const appearTime = ...; for (let y = H - 1; y >= 0; y--) { ... }
ScheduleTiles ==
  /\ pc = "tiles"
  /\ appearTime' = appearTimes(H - 1, mulberry32(seed),
                               [y \in 0..(H-1) |-> [x \in 0..(W-1) |-> NO_TIME]])
  /\ pc' = "drops"
  /\ UNCHANGED <<W, grid, seed, r, t, mask, placements, safety, cell, best, overlay, returned,
                 heatVars, mainVars, rngVars, drops, gameVars, sweepVars>>

\* let drops = ""; for (let y = H - 1; y >= 0; y--) { ... }
ScheduleDrops ==
  /\ pc = "drops"
  /\ drops' = fallingBlocks(H - 1)
  /\ pc' = "rendered"
  /\ UNCHANGED <<W, grid, seed, r, t, mask, placements, safety, cell, best, overlay, returned,
                 heatVars, mainVars, rngVars, appearTime, gameVars, sweepVars>>

\* the most blocks of a row that begin within ROW_DUR of the row's start
StaggerFit == ((ROW_DUR - 1) \div STAGGER) + 1

\* a full-year grid whose bottom row has its first n cells contributed and
\* whose next row up has one contributed cell
RowGrid(n) ==
  [y \in 0..(H-1) |-> [x \in 0..(MAX_WEEKS-1) |->
     IF (y = H - 1 /\ x < n) \/ (y = H - 2 /\ x = 0) THEN 1 ELSE 0]]

RowInputs ==
  {[W |-> MAX_WEEKS, grid |-> RowGrid(n)] : n \in {1, StaggerFit, StaggerFit + 1, MAX_WEEKS}}

InitRows ==
  /\ \E in \in SmallInputs \cup RowInputs : W = in.W /\ grid = in.grid
  /\ seed \in Seeds
  /\ r = 0
  /\ t = <<0, 0>>
  /\ overlay = <<>>
  /\ returned = <<>>
  /\ pc = "tiles"
  /\ HeatmapGiven
  /\ OthersIdle
  /\ InitPack

NextRows == ScheduleTiles \/ ScheduleDrops

SpecRows == InitRows /\ [][NextRows]_vars

\* C24: in the row-build variant, for every contributed cell (count > 0) the
\* appearance time of its tile equals the begin time of the falling block that
\* targets that cell plus FALL_DUR.
\* Violated: the two loops shuffle a row with different generators.
C24_TileAppearsOnLanding ==
  pc = "rendered" =>
    \A y \in 0..(H-1) : \A x \in 0..(W-1) :
      grid[y][x] > 0 =>
        \E k \in 1..Len(drops) :
          /\ drops[k].x = x /\ drops[k].y = y
          /\ appearTime[y][x] = drops[k].begin + FALL_DUR

\* C25: rows are built bottom to top, row y starting at (H-1-y)*ROW_DUR, and
\* every falling block of a row begins before the first falling block of the
\* next row up begins.
\* Violated: a row with more than StaggerFit contributed cells is still
\* dropping blocks when the next row starts.
C25_OneLineAtATime ==
  \A k \in 1..Len(drops) :
    /\ drops[k].begin >= rowStart(drops[k].y)
    /\ \A n \in 1..Len(drops) :
         drops[n].y = drops[k].y - 1 => drops[k].begin < drops[n].begin

(***************************************************************************)
(* SpecGame: simulateGame of the classic-well script, one action per pass  *)
(* of its loop.  The script's W and H are WELL_W and WELL_H here; a board  *)
(* cell holds the piece's name, or NO_BLOCK for null.                      *)
(***************************************************************************)
WELL_W == 10
WELL_H == 20
NO_BLOCK == ""

\* pieces = clamp(Math.floor(energy / 35), 14, 26)
MIN_PIECES == 14
MAX_PIECES == 26
\* tries < 10
MAX_TRIES == 10
\* score += 5
PLACE_SCORE == 5
\* fromY: -4
GAME_FROM_Y == -4

emptyRow == [x \in 1..WELL_W |-> NO_BLOCK]

emptyBoard == [y \in 1..WELL_H |-> emptyRow]

\* mutant: only the walls of the well are tested, not the blocks in it
canPlaceInWell(b, shape, ox, oy) ==
  \A k \in 1..Len(shape) :
    /\ ox + shape[k][1] \in 0..(WELL_W - 1)
    /\ oy + shape[k][2] \in 0..(WELL_H - 1)

\* canPlace(board, shape, ox, oy); cell (x, y) of the board is b[y + 1][x + 1]
canPlace(b, shape, ox, oy) ==
  \A k \in 1..Len(shape) :
    LET x == ox + shape[k][1]
        y == oy + shape[k][2]
    IN /\ ~(x < 0 \/ x >= WELL_W \/ y < 0 \/ y >= WELL_H)
       /\ b[y + 1][x + 1] = NO_BLOCK

\* stamp(board, shape, ox, oy, piece)
stamp(b, shape, ox, oy, piece) ==
  [y \in 1..WELL_H |-> [x \in 1..WELL_W |->
     IF \E k \in 1..Len(shape) : ox + shape[k][1] = x - 1 /\ oy + shape[k][2] = y - 1
     THEN piece ELSE b[y][x]]]

\* board[y].every((c) => c !== null)
isFull(row) == \A x \in 1..Len(row) : row[x] # NO_BLOCK

\* newRows after the first loop of clearFullRows: the rows that are not full
RECURSIVE keptRows(_, _)
keptRows(b, y) ==
  IF y > Len(b) THEN <<>>
  ELSE (IF isFull(b[y]) THEN <<>> ELSE <<b[y]>>) \o keptRows(b, y + 1)

\* mutant: the empty rows are pushed below the kept rows
clearFullRowsPadBelow(b) ==
  LET kept == keptRows(b, 1)
  IN [board   |-> kept \o [k \in 1..(WELL_H - Len(kept)) |-> emptyRow],
      cleared |-> Len(b) - Len(kept)]

\* clearFullRows(board): empty rows are unshifted while newRows.length < H
clearFullRows(b) ==
  LET kept == keptRows(b, 1)
  IN [board   |-> [k \in 1..(WELL_H - Len(kept)) |-> emptyRow] \o kept,
      cleared |-> Len(b) - Len(kept)]

\* mutant: 100 points per cleared row
lineScorePerRow(cleared) == 100 * cleared

\* [0, 100, 300, 500, 800][clamp(cleared, 0, 4)]
lineScore(cleared) == <<0, 100, 300, 500, 800>>[clamp(cleared, 0, 4) + 1]

\* while (!canPlace(board, shape, ox, oy) && tries < 10) { ox = clamp(
\* Math.floor(rng() * (W - 3)), 0, W - 4); tries++; } from generator state st
RECURSIVE nudge(_, _, _, _, _)
nudge(b, shape, ox, st, tries) ==
  IF ~canPlace(b, shape, ox, 0) /\ tries < MAX_TRIES
  THEN LET s1 == rngAdvance(st)
       IN nudge(b, shape, clamp(FloorMul(rngValue(s1), WELL_W - 3), 0, WELL_W - 4),
                s1, tries + 1)
  ELSE [ox |-> ox, rng |-> st]

\* let dropY = oy; while (canPlace(board, shape, ox, dropY + 1)) dropY++;
RECURSIVE dropFrom(_, _, _, _)
dropFrom(b, shape, ox, dropY) ==
  IF canPlace(b, shape, ox, dropY + 1) THEN dropFrom(b, shape, ox, dropY + 1) ELSE dropY

\* the rows of a board that are full, top to bottom, as 0-based indices
RECURSIVE flashRowsFrom(_, _)
flashRowsFrom(b, y) ==
  IF y > Len(b) THEN <<>>
  ELSE (IF isFull(b[y]) THEN <<y - 1>> ELSE <<>>) \o flashRowsFrom(b, y + 1)

\* one pass of for (let i = 0; i < pieces; i++) { ... }; landed is i
DropPiece ==
  /\ pc = "game"
  /\ landed < pieces
  /\ LET s1    == rngAdvance(t)
         s2    == rngAdvance(s1)
         s3    == rngAdvance(s2)
         piece == PIECE_ORDER[FloorMul(rngValue(s1), Len(PIECE_ORDER)) + 1]
         rot   == FloorMul(rngValue(s2), 4)
         shape == PIECES[piece][rot + 1]
         nd    == nudge(board, shape, clamp(3 + FloorMul(rngValue(s3), 4), 0, WELL_W - 4), s3, 0)
     IN /\ t' = nd.rng
        /\ IF ~canPlace(board, shape, nd.ox, 0)
           THEN \* game over: break
                /\ pc' = "final"
                /\ UNCHANGED <<board, score, lines, steps, landed>>
           ELSE LET dropY   == dropFrom(board, shape, nd.ox, 0)
                    falling == [board |-> board,
                                falling |-> [piece |-> piece, shape |-> shape, ox |-> nd.ox,
                                             fromY |-> GAME_FROM_Y, toY |-> dropY],
                                flashRows |-> <<>>, score |-> score, lines |-> lines]
                    beforeClear == stamp(board, shape, nd.ox, dropY, piece)
                    res     == clearFullRows(beforeClear)
                    snap(b, fl) == [board |-> b, falling |-> Null, flashRows |-> fl,
                                    score |-> score', lines |-> lines']
                IN /\ score' = score + PLACE_SCORE
                             + (IF res.cleared > 0 THEN lineScore(res.cleared) ELSE 0)
                   /\ lines' = lines + (IF res.cleared > 0 THEN res.cleared ELSE 0)
                   /\ board' = IF res.cleared > 0 THEN res.board ELSE beforeClear
                   /\ steps' = steps \o <<falling>> \o
                               (IF res.cleared > 0
                                THEN <<snap(beforeClear, flashRowsFrom(beforeClear, 1)),
                                       snap(res.board, <<>>)>>
                                ELSE <<snap(beforeClear, <<>>)>>)
                   /\ landed' = landed + 1
                   /\ pc' = "game"
  /\ UNCHANGED <<W, grid, seed, r, mask, placements, safety, cell, best, overlay, returned,
                 heatVars, mainVars, rngVars, rowVars, pieces, sweepVars>>

\* steps.push({ board, falling: null, flashRows: [], score, lines }); return steps
FinishGame ==
  /\ pc = "final" \/ (pc = "game" /\ landed >= pieces)
  /\ steps' = Append(steps, [board |-> board, falling |-> Null, flashRows |-> <<>>,
                             score |-> score, lines |-> lines])
  /\ pc' = "returned"
  /\ UNCHANGED <<W, grid, seed, r, t, mask, placements, safety, cell, best, overlay, returned,
                 heatVars, mainVars, rngVars, rowVars, pieces, board, score, lines, landed,
                 sweepVars>>

\* seeds whose games clear one row (627) and two rows with one piece (1879556)
ClearSeeds == {<<0, 627>>, <<28, 44548>>}

GameSeeds == Seeds \cup ClearSeeds

\* const rng = mulberry32(seed); let board = emptyBoard(); score = 0; lines = 0
InitGame ==
  /\ pieces \in {MIN_PIECES, MAX_PIECES}
  /\ seed \in GameSeeds
  /\ t = mulberry32(seed)
  /\ board = emptyBoard
  /\ score = 0
  /\ lines = 0
  /\ steps = <<>>
  /\ landed = 0
  /\ pc = "game"
  /\ W = 0
  /\ grid = [y \in 0..(H-1) |-> <<>>]
  /\ r = 0
  /\ overlay = <<>>
  /\ returned = <<>>
  /\ InitPack
  /\ HeatmapGiven
  /\ MainIdle /\ RngIdle /\ RowIdle /\ SweepIdle

NextGame == DropPiece \/ FinishGame

SpecGame == InitGame /\ [][NextGame]_vars

\* the steps that show a falling piece, and the number of filled cells
FallingSteps == {k \in 1..Len(steps) : steps[k].falling # Null}

filledCells(b) ==
  Cardinality({c \in (1..WELL_W) \X (1..WELL_H) : b[c[2]][c[1]] # NO_BLOCK})

\* C27: every piece is stamped only at a position (ox, dropY) where all four
\* of its cells are inside the 10x20 well and empty on the current board, and
\* where canPlace at dropY + 1 is false; the board after the landing is the
\* board before it plus the piece's four cells (no block is overwritten).
C27_LegalLanding ==
  \A k \in FallingSteps :
    LET b  == steps[k].board
        f  == steps[k].falling
        cs == {<<f.ox + f.shape[i][1], f.toY + f.shape[i][2]>> : i \in 1..Len(f.shape)}
    IN /\ Cardinality(cs) = 4
       /\ \A c \in cs : c[1] \in 0..(WELL_W - 1) /\ c[2] \in 0..(WELL_H - 1)
                        /\ b[c[2] + 1][c[1] + 1] = NO_BLOCK
       /\ \E c \in cs : c[2] + 1 = WELL_H \/ (<<c[1], c[2] + 1>> \notin cs
                                             /\ b[c[2] + 2][c[1] + 1] # NO_BLOCK)
       /\ LET after == steps[k + 1].board
          IN \A x \in 1..WELL_W, y \in 1..WELL_H :
               after[y][x] = IF <<x - 1, y - 1>> \in cs THEN f.piece ELSE b[y][x]

\* a piece has landed on the floor, another rests on blocks above the floor,
\* and a piece has landed after the spawn position was nudged
C27_Witness ==
  /\ \E k \in FallingSteps :
       \E i \in 1..4 : steps[k].falling.toY + steps[k].falling.shape[i][2] = WELL_H - 1
  /\ \E k \in FallingSteps :
       \A i \in 1..4 : steps[k].falling.toY + steps[k].falling.shape[i][2] < WELL_H - 4
  /\ \E k \in FallingSteps : steps[k].falling.ox < 3

(***************************************************************************)
(* SpecClear: clearFullRows applied to a board of WELL_H rows.             *)
(***************************************************************************)
\* bit i (from 0) of n
bitOf(n, i) == (n \div Pow2(i)) % 2

\* a board whose rows in `full` (0-based) are full, whose row `hole` is empty
\* and whose other rows y hold the binary digits of y + 1 in their first five
\* cells: the rows that are not full are all different
TestBoard(full, hole) ==
  [y \in 1..WELL_H |-> [x \in 1..WELL_W |->
     IF (y - 1) \in full THEN "I"
     ELSE IF y - 1 = hole THEN NO_BLOCK
     ELSE IF x <= 5 /\ bitOf(y, x - 1) = 1 THEN "T" ELSE NO_BLOCK]]

\* boards with at most MaxFull full rows, and the board of full rows only
ClearBoards ==
  {TestBoard(full, hole) :
     full \in {f \in SUBSET (0..(WELL_H - 1)) : Cardinality(f) <= MaxFull},
     hole \in {-1, 0, WELL_H - 1}}
  \cup {TestBoard(0..(WELL_H - 1), -1)}

\* const { board: afterClear, cleared } = clearFullRows(boardAfterLand);
\* lines += cleared; board = afterClear
ClearRows ==
  /\ pc = "clear"
  /\ board' = clearFullRows(board).board
  /\ lines' = lines + clearFullRows(board).cleared
  /\ pc' = "cleared"
  /\ UNCHANGED <<W, grid, seed, r, t, mask, placements, safety, cell, best, overlay, returned,
                 heatVars, mainVars, rngVars, rowVars, pieces, score, steps, landed, sweepVars>>

InitClear ==
  /\ board \in ClearBoards
  /\ pieces = 0
  /\ score = 0
  /\ lines = 0
  /\ steps = <<>>
  /\ landed = 0
  /\ pc = "clear"
  /\ TilerIdle
  /\ HeatmapGiven
  /\ MainIdle /\ RngIdle /\ RowIdle /\ SweepIdle

NextClear == ClearRows

SpecClear == InitClear /\ [][NextClear]_vars

\* C28: the result of clearFullRows has exactly H rows of width W and no
\* completely filled row, cleared is the number of completely filled rows of
\* the input, the rows that are not full are kept in their original
\* top-to-bottom order at the bottom, and exactly `cleared` empty rows are on top.
C28_ClearFullRows ==
  [][pc = "clear" =>
       LET in      == board
           out     == board'
           cleared == lines' - lines
           keptIdx == {y \in 1..WELL_H : ~isFull(in[y])}
       IN /\ Len(out) = WELL_H
          /\ \A y \in 1..WELL_H : Len(out[y]) = WELL_W /\ ~isFull(out[y])
          /\ cleared = Cardinality({y \in 1..WELL_H : isFull(in[y])})
          /\ \A y \in 1..cleared : \A x \in 1..WELL_W : out[y][x] = NO_BLOCK
          /\ \A y \in keptIdx :
               out[cleared + Cardinality({z \in keptIdx : z <= y})] = in[y]]_vars

\* two rows have been cleared from a board that also had an empty row: the
\* result has two empty rows on top and blocks in the row below them
C28_Witness ==
  /\ pc = "cleared"
  /\ lines = 2
  /\ board[1] = emptyRow /\ board[2] = emptyRow
  /\ board[3] # emptyRow
  /\ board[WELL_H] = emptyRow

(***************************************************************************)
(* Accounting of simulateGame (SpecGame).                                  *)
(***************************************************************************)
\* the rows cleared by the landing shown in step k: the flash snapshot that
\* follows holds them
clearedAt(k) == Len(steps[k + 1].flashRows)

RECURSIVE SumCleared(_)
SumCleared(k) ==
  IF k = 0 THEN 0
  ELSE SumCleared(k - 1) + (IF k \in FallingSteps THEN clearedAt(k) ELSE 0)

RECURSIVE SumLineScores(_)
SumLineScores(k) ==
  IF k = 0 THEN 0
  ELSE SumLineScores(k - 1)
       + (IF k \in FallingSteps
          THEN <<0, 100, 300, 500, 800>>[clearedAt(k) + 1] ELSE 0)

\* C29: after any number of landed pieces, lines is the total number of rows
\* cleared so far, score is 5 * (pieces landed) plus the sum of
\* [0,100,300,500,800][cleared] over the landings, both are non-decreasing
\* along the steps, and the board holds 4 * (pieces landed) - W * lines blocks.
C29_Accounting ==
  /\ landed = Cardinality(FallingSteps)
  /\ \A k \in FallingSteps : clearedAt(k) \in 0..4
  /\ lines = SumCleared(Len(steps))
  /\ score = 5 * landed + SumLineScores(Len(steps))
  /\ \A k \in 1..(Len(steps) - 1) :
       /\ steps[k].score <= steps[k + 1].score
       /\ steps[k].lines <= steps[k + 1].lines
  /\ pc = "returned" =>
       steps[Len(steps)].score = score /\ steps[Len(steps)].lines = lines
  /\ filledCells(board) = 4 * landed - WELL_W * lines

\* one landing has cleared two rows at once, and pieces have landed since
C29_Witness ==
  /\ \E k \in FallingSteps : clearedAt(k) = 2 /\ k + 3 < Len(steps)
  /\ lines >= 2
  /\ score >= 5 * landed + 300

(***************************************************************************)
(* SpecSweep: buildAnimatedSVG of the sweep scripts.  The GraphQL script   *)
(* hands it the colour grid of main (7 rows, one column per week); the     *)
(* page-scraping script (scripts/generate-minesweeper-pop.mjs) hands it    *)
(* the rects of the contribution calendar, one per listed day.  Pop times  *)
(* are in milliseconds, as written by toFixed(3).                          *)
(***************************************************************************)
POPS_EVERY == 8

\* the cells of column c, top to bottom if c is even, bottom to top if odd
snakeColumn(c, rows) ==
  [i \in 1..rows |-> IF c % 2 = 0 THEN <<c, i - 1>> ELSE <<c, rows - i>>]

\* for (let c = 0; c < cols; c++) { ... order.push([c, r]) }
RECURSIVE snakeFrom(_, _, _)
snakeFrom(c, cols, rows) ==
  IF c >= cols THEN <<>> ELSE snakeColumn(c, rows) \o snakeFrom(c + 1, cols, rows)

\* clamp(Math.round(totalSteps / 18), 6, 16)
sweepDur(totalSteps) == clamp((totalSteps + 9) \div 18, 6, 16)

\* ((idx * popsEvery) * stepDur).toFixed(3) with stepDur = dur / totalSteps,
\* in milliseconds: the nearest one, the larger of two equally near
popBegin(idx, d, totalSteps) ==
  (2 * POPS_EVERY * idx * d * 1000 + totalSteps) \div (2 * totalSteps)

\* popCells = seq.filter((_, i) => i % popsEvery === 0) and their elements
popsOf(seq, d, totalSteps) ==
  [k \in 1..((Len(seq) + POPS_EVERY - 1) \div POPS_EVERY) |->
     [c |-> seq[POPS_EVERY * (k - 1) + 1][1], r |-> seq[POPS_EVERY * (k - 1) + 1][2],
      begin |-> popBegin(k - 1, d, totalSteps)]]

\* buildAnimatedSVG(grid, opts) of the GraphQL script: cols = grid[0].length,
\* rows = grid.length; the cursor takes the cells of order as its values
BuildAnimatedSVG ==
  /\ pc = "sweep"
  /\ sweep # <<>>
  /\ LET rows == Cardinality(DOMAIN sweep)
         cols == Cardinality(DOMAIN sweep[0])
     IN /\ order' = snakeFrom(0, cols, rows)
        /\ dur' = sweepDur(Len(order'))
        /\ cursorPath' = order'
        /\ pops' = popsOf(order', dur', Len(order'))
  /\ pc' = "swept"
  /\ UNCHANGED <<W, grid, seed, r, t, mask, placements, safety, cell, best, overlay, returned,
                 heatVars, mainVars, rngVars, rowVars, gameVars>>

\* the rects of the calendar page: one per listed day, column = week, row =
\* position of the day in its week
Rects == {<<c, d>> \in (0..(Len(weeks) - 1)) \X (0..(H - 1)) : d < Len(weeks[c + 1])}

\* xIndex / yIndex: the rank of a coordinate among the distinct ones
rankIn(v, S) == Cardinality({u \in S : u < v})

\* seq = order.map(([c, r]) => cellMap.get(`${c},${r}`)).filter(Boolean)
withRect(ord, cells) == SelectSeq(ord, LAMBDA cr : cr \in cells)

\* buildAnimatedSVG(rects, opts) of the page-scraping script: cols and rows
\* count the distinct x and y, stepDur = dur / order.length, and the cursor
\* takes the cells of seq, the cells of order that have a rect
BuildFromRects ==
  /\ pc = "sweep"
  /\ Rects # {}
  /\ LET uniqX == {rc[1] : rc \in Rects}
         uniqY == {rc[2] : rc \in Rects}
         cells == {<<rankIn(rc[1], uniqX), rankIn(rc[2], uniqY)>> : rc \in Rects}
     IN /\ order' = snakeFrom(0, Cardinality(uniqX), Cardinality(uniqY))
        /\ dur' = sweepDur(Len(order'))
        /\ cursorPath' = withRect(order', cells)
        /\ pops' = popsOf(cursorPath', dur', Len(order'))
  /\ pc' = "sweptRects"
  /\ UNCHANGED <<W, grid, seed, r, t, mask, placements, safety, cell, best, overlay, returned,
                 heatVars, mainVars, rngVars, rowVars, gameVars>>

InitSweep ==
  /\ weeks \in WeekLists
  /\ dates = <<>>
  /\ heat = <<>>
  /\ sweep = <<>>
  /\ pc = "sweep"
  /\ TilerIdle
  /\ OthersIdle

NextSweep == SweepGrid \/ BuildAnimatedSVG \/ BuildFromRects

SpecSweep == InitSweep /\ [][NextSweep]_vars

\* the cells of the grid buildAnimatedSVG was handed
SweptCells ==
  IF pc = "swept" THEN (0..(Len(weeks) - 1)) \X (0..(H - 1))
  ELSE LET uniqX == {rc[1] : rc \in Rects}
           uniqY == {rc[2] : rc \in Rects}
       IN (0..(Cardinality(uniqX) - 1)) \X (0..(Cardinality(uniqY) - 1))

\* the order visits every cell exactly once, column after column from the
\* left, top to bottom in even columns and bottom to top in odd ones, and
\* consecutive cells are orthogonally adjacent
SnakeOrder ==
  /\ Len(order) = Cardinality(SweptCells)
  /\ {order[i] : i \in 1..Len(order)} = SweptCells
  /\ \A i \in 1..(Len(order) - 1) :
       LET a == order[i]
           b == order[i + 1]
       IN /\ \/ a[1] = b[1] /\ b[2] = a[2] + (IF a[1] % 2 = 0 THEN 1 ELSE -1)
             \/ b[1] = a[1] + 1 /\ b[2] = a[2]
          /\ (a[1] - b[1]) * (a[1] - b[1]) + (a[2] - b[2]) * (a[2] - b[2]) = 1
  /\ Len(order) > 0 => order[1] = <<0, 0>>

\* pop k (from 0) is on the cell the cursor shows as its value number 8k, and
\* begins at 8k * stepDur, the moment that value starts (the cursor's n values
\* are shown for dur / n each), before dur
PopsOnCursor ==
  /\ Len(pops) = (Len(cursorPath) + POPS_EVERY - 1) \div POPS_EVERY
  /\ \A k \in 1..Len(pops) :
       /\ <<pops[k].c, pops[k].r>> = cursorPath[POPS_EVERY * (k - 1) + 1]
       /\ pops[k].begin * Len(order) = POPS_EVERY * (k - 1) * dur * 1000
       /\ pops[k].begin * Len(cursorPath) = POPS_EVERY * (k - 1) * dur * 1000
       /\ pops[k].begin < dur * 1000

\* C30: the snake order visits every cell exactly once, through the columns
\* left to right, top-to-bottom in even columns and bottom-to-top in odd ones,
\* consecutive cells orthogonally adjacent; and the k-th spark pop fires at
\* time 8k * stepDur, the moment the cursor reaches that cell, which is < dur.
\* Violated: the begin time is written with three decimals, and the
\* page-scraping script steps the cursor through the cells that have a rect
\* while stepDur counts all cells of the order.
C30_SweepOrderAndPops ==
  pc \in {"swept", "sweptRects"} => SnakeOrder /\ PopsOnCursor

====
